---- MODULE Spec2Model ----
(***************************************************************************)
(* SS14 Displacer Studio: the edit session of displacer/core.py            *)
(* (SS14DisplacementTool), the selection algebra of                        *)
(* displacer/selection_tools.py and the displacement compositor of         *)
(* displacer/image_processing.py (with the older copy kept in app.py).     *)
(*                                                                         *)
(* A raster is a record [w, h, px] with px a function from <<x, y>> to a   *)
(* pixel; an RGBA pixel is <<r, g, b, a>>, a mask ("L") pixel is a number. *)
(* Python's None is the record None.  PIL images define neither __bool__   *)
(* nor __len__, and a position is a non-empty tuple, so `if v` / `not v`   *)
(* on them tests exactly v # None.                                         *)
(***************************************************************************)
EXTENDS Integers, Sequences, FiniteSets, TLC

None == [none |-> TRUE]

Truthy(v) == v # None

NEUTRAL_OPAQUE == <<128, 128, 0, 255>>

NEUTRAL_TRANSPARENT == <<128, 128, 0, 0>>

TRANSPARENT_BLACK == <<0, 0, 0, 0>>

max_undo_steps == 10

(***************************************************************************)
(* Bounds of the model.                                                    *)
(***************************************************************************)
\* widest raster of SpecSelect and widest mask of SpecSel (the rasters of the
\* session specifications and the masks are one row high)
MaxW == 2

\* largest width and height of the rasters handed to the compositors in SpecComp
CompW == 2

CompH == 2

\* width of the canvas in Spec
PaintW == 2

\* width and height of the raster handed to paint_displacement in SpecPaint
StrokeW == 3

StrokeH == 3

\* widest raster of SpecEdit
EditW == 2

\* longest lasso path SpecSelect explores
MaxLasso == 3

\* width of the canvas in SpecGesture
GestureW == 2

\* width and height of the images handed to the flood fill in SpecFlood
FloodW == 2

FloodH == 2

\* deepest undo log the session specifications other than SpecUndo explore
MaxStack == 1

\* most snapshots handed to the undo log and not yet popped, in SpecUndo
MaxPushes == 14

Min(a, b) == IF a < b THEN a ELSE b

Max(a, b) == IF a > b THEN a ELSE b

Coords(w, h) == (0 .. (w - 1)) \X (0 .. (h - 1))

\* Image.new(mode, (w, h), fill)
NewImage(w, h, fill) == [w |-> w, h |-> h, px |-> [c \in Coords(w, h) |-> fill]]

Pos(x, y) == [x |-> x, y |-> y]

InImage(img, x, y) == 0 <= x /\ x < img.w /\ 0 <= y /\ y < img.h

(***************************************************************************)
(* State of SS14DisplacementTool (core.py __init__), without the widgets.  *)
(***************************************************************************)
VARIABLES
    displacement_image,
    reference_image,
    background_image,
    selection_mask,
    selection_active,
    current_tool,
    selection_op,
    selection_start,
    temp_selection,
    lasso_points,
    brush_size,
    paint_strength,
    magic_tolerance,
    is_drawing,
    displacement_direction,
    undo_stack,
    \* history variables (not program state)
    pushed,        \* snapshots handed to save_state and not yet returned by undo
    undo_expect,   \* what the latest step should have restored, if it was an undo that popped
    gesture,       \* the paint gesture in progress, as the claims describe it
    noted,         \* what the latest step was, where a claim speaks of one command
    \* inputs and result of the pure function under study
    call,
    ret,
    \* locals of the function under study while its loop runs
    frame

imageVars == <<displacement_image, reference_image, background_image>>

selVars == <<selection_mask, selection_active>>

settingVars == <<current_tool, selection_op, brush_size, paint_strength,
                 magic_tolerance, displacement_direction>>

gestureVars == <<selection_start, temp_selection, lasso_points, is_drawing>>

historyVars == <<pushed, undo_expect, gesture, noted>>

fnVars == <<call, ret, frame>>

sessionVars == <<imageVars, selVars, settingVars, gestureVars, undo_stack>>

vars == <<sessionVars, historyVars, fnVars>>

(***************************************************************************)
(* selection_tools.py                                                      *)
(***************************************************************************)
\* an exception leaving a function (numpy's "operands could not be broadcast
\* together", PIL's "image index out of range")
Raised == [raised |-> TRUE]

\* create_rect_selection(start, end, image_size): ImageDraw.rectangle fills
\* both corners inclusive and clips to the image
create_rect_selection(start, end, w, h) ==
    LET x1 == Min(start.x, end.x)
        x2 == Max(start.x, end.x)
        y1 == Min(start.y, end.y)
        y2 == Max(start.y, end.y)
    IN  [w |-> w, h |-> h,
         px |-> [c \in Coords(w, h) |->
                   IF x1 <= c[1] /\ c[1] <= x2 /\ y1 <= c[2] /\ c[2] <= y2
                   THEN 255 ELSE 0]]

\* edge i of the closed polygon through points: from points[i] to its successor
PolyEdge(points, i) ==
    <<points[i], points[IF i = Len(points) THEN 1 ELSE i + 1]>>

OnSegment(p, a, b) ==
    /\ (b.x - a.x) * (p.y - a.y) = (b.y - a.y) * (p.x - a.x)
    /\ Min(a.x, b.x) <= p.x /\ p.x <= Max(a.x, b.x)
    /\ Min(a.y, b.y) <= p.y /\ p.y <= Max(a.y, b.y)

\* the ray from p towards +x crosses the edge a-b (even-odd rule)
RayCrosses(p, a, b) ==
    /\ (a.y > p.y) # (b.y > p.y)
    /\ IF b.y > a.y
       THEN (p.x - a.x) * (b.y - a.y) < (p.y - a.y) * (b.x - a.x)
       ELSE (p.x - a.x) * (b.y - a.y) > (p.y - a.y) * (b.x - a.x)

\* ImageDraw.polygon(points, fill=255) on integer vertices: the pixels on the
\* outline and the pixels inside it
polygon_fill(points, w, h) ==
    LET edges == {PolyEdge(points, i) : i \in 1 .. Len(points)}
        inside(p) ==
            \/ \E e \in edges : OnSegment(p, e[1], e[2])
            \/ Cardinality({i \in 1 .. Len(points) :
                   RayCrosses(p, PolyEdge(points, i)[1], PolyEdge(points, i)[2])}) % 2 = 1
    IN  [w |-> w, h |-> h,
         px |-> [c \in Coords(w, h) |-> IF inside(Pos(c[1], c[2])) THEN 255 ELSE 0]]

\* create_lasso_selection(points, image_size)
create_lasso_selection(points, w, h) ==
    IF Len(points) < 3 THEN None ELSE polygon_fill(points, w, h)

Abs(n) == IF n < 0 THEN 0 - n ELSE n

\* np.sum(np.abs(current_color.astype(int) - seed_color.astype(int))) on RGB
color_diff(p, q) == Abs(p[1] - q[1]) + Abs(p[2] - q[2]) + Abs(p[3] - q[3])

\* the neighbour offsets (dx, dy), in the order the loop visits them
NEIGHBOURS == << <<0, 1>>, <<0, -1>>, <<1, 0>>, <<-1, 0>> >>

RECURSIVE flood_loop(_, _, _, _, _, _)
\* the `while queue:` loop of magic_select; visited and mask are the sets of
\* coordinates whose entry is True / 255
flood_loop(img, seed, tolerance, queue, visited, mask) ==
    IF queue = << >> THEN mask
    ELSE
        LET c == Head(queue)
            diff == color_diff(img.px[c], img.px[seed])
            cand == [i \in 1 .. 4 |-> <<c[1] + NEIGHBOURS[i][1], c[2] + NEIGHBOURS[i][2]>>]
            fresh == SelectSeq(cand, LAMBDA n : InImage(img, n[1], n[2]) /\ n \notin visited)
        IN  IF diff <= tolerance
            THEN flood_loop(img, seed, tolerance, Tail(queue) \o fresh,
                            visited \cup {fresh[i] : i \in 1 .. Len(fresh)},
                            mask \cup {c})
            ELSE flood_loop(img, seed, tolerance, Tail(queue), visited, mask)

\* magic_select up to its loop (lines 30-42): None for a seed outside the
\* image, else the locals at the first test of `while queue:`.  enq and deq
\* are history: every coordinate appended to, and popped from, the queue.
flood_enter(image, x, y) ==
    IF x < 0 \/ x >= image.w \/ y < 0 \/ y >= image.h THEN None
    ELSE [queue |-> << <<x, y>> >>, visited |-> {<<x, y>>}, mask |-> {},
          enq |-> << <<x, y>> >>, deq |-> << >>]

\* mutant of flood_step: the four diagonal neighbours are enqueued as well
flood_step_eight_neighbours(img, seed, tolerance, f) ==
    LET c == Head(f.queue)
        diff == color_diff(img.px[c], img.px[seed])
        around == << <<0, 1>>, <<0, -1>>, <<1, 0>>, <<-1, 0>>,
                     <<1, 1>>, <<1, -1>>, <<-1, 1>>, <<-1, -1>> >>
        cand == [i \in 1 .. 8 |-> <<c[1] + around[i][1], c[2] + around[i][2]>>]
        fresh == SelectSeq(cand, LAMBDA n : InImage(img, n[1], n[2]) /\ n \notin f.visited)
    IN  IF diff <= tolerance
        THEN [queue |-> Tail(f.queue) \o fresh,
              visited |-> f.visited \cup {fresh[i] : i \in 1 .. Len(fresh)},
              mask |-> f.mask \cup {c},
              enq |-> f.enq \o fresh,
              deq |-> Append(f.deq, c)]
        ELSE [f EXCEPT !.queue = Tail(f.queue), !.deq = Append(f.deq, c)]

\* mutant of flood_step: a pixel is marked visited when it is popped, not
\* when it is appended
flood_step_marks_on_pop(img, seed, tolerance, f) ==
    LET c == Head(f.queue)
        diff == color_diff(img.px[c], img.px[seed])
        cand == [i \in 1 .. 4 |-> <<c[1] + NEIGHBOURS[i][1], c[2] + NEIGHBOURS[i][2]>>]
        seen == f.visited \cup {c}
        fresh == SelectSeq(cand, LAMBDA n : InImage(img, n[1], n[2]) /\ n \notin seen)
    IN  IF diff <= tolerance
        THEN [queue |-> Tail(f.queue) \o fresh,
              visited |-> seen,
              mask |-> f.mask \cup {c},
              enq |-> f.enq \o fresh,
              deq |-> Append(f.deq, c)]
        ELSE [f EXCEPT !.queue = Tail(f.queue), !.visited = seen,
                       !.deq = Append(f.deq, c)]

\* mutant of flood_step: the colour difference must be below the tolerance
flood_step_strict(img, seed, tolerance, f) ==
    LET c == Head(f.queue)
        diff == color_diff(img.px[c], img.px[seed])
        cand == [i \in 1 .. 4 |-> <<c[1] + NEIGHBOURS[i][1], c[2] + NEIGHBOURS[i][2]>>]
        fresh == SelectSeq(cand, LAMBDA n : InImage(img, n[1], n[2]) /\ n \notin f.visited)
    IN  IF diff < tolerance
        THEN [queue |-> Tail(f.queue) \o fresh,
              visited |-> f.visited \cup {fresh[i] : i \in 1 .. Len(fresh)},
              mask |-> f.mask \cup {c},
              enq |-> f.enq \o fresh,
              deq |-> Append(f.deq, c)]
        ELSE [f EXCEPT !.queue = Tail(f.queue), !.deq = Append(f.deq, c)]

\* mutant of flood_step: the neighbour to the left is not looked at
flood_step_never_left(img, seed, tolerance, f) ==
    LET c == Head(f.queue)
        diff == color_diff(img.px[c], img.px[seed])
        cand == [i \in 1 .. 3 |-> <<c[1] + NEIGHBOURS[i][1], c[2] + NEIGHBOURS[i][2]>>]
        fresh == SelectSeq(cand, LAMBDA n : InImage(img, n[1], n[2]) /\ n \notin f.visited)
    IN  IF diff <= tolerance
        THEN [queue |-> Tail(f.queue) \o fresh,
              visited |-> f.visited \cup {fresh[i] : i \in 1 .. Len(fresh)},
              mask |-> f.mask \cup {c},
              enq |-> f.enq \o fresh,
              deq |-> Append(f.deq, c)]
        ELSE [f EXCEPT !.queue = Tail(f.queue), !.deq = Append(f.deq, c)]

\* one iteration of `while queue:` (lines 44-55) on the locals f
flood_step(img, seed, tolerance, f) ==
    LET c == Head(f.queue)
        diff == color_diff(img.px[c], img.px[seed])
        cand == [i \in 1 .. 4 |-> <<c[1] + NEIGHBOURS[i][1], c[2] + NEIGHBOURS[i][2]>>]
        fresh == SelectSeq(cand, LAMBDA n : InImage(img, n[1], n[2]) /\ n \notin f.visited)
    IN  IF diff <= tolerance
        THEN [queue |-> Tail(f.queue) \o fresh,
              visited |-> f.visited \cup {fresh[i] : i \in 1 .. Len(fresh)},
              mask |-> f.mask \cup {c},
              enq |-> f.enq \o fresh,
              deq |-> Append(f.deq, c)]
        ELSE [f EXCEPT !.queue = Tail(f.queue), !.deq = Append(f.deq, c)]

\* Image.fromarray(mask, "L") (line 57): m is the set of coordinates at 255
flood_mask(image, m) ==
    [w |-> image.w, h |-> image.h,
     px |-> [c \in Coords(image.w, image.h) |-> IF c \in m THEN 255 ELSE 0]]

\* magic_select(image, x, y, tolerance)
st_magic_select(image, x, y, tolerance) ==
    IF x < 0 \/ x >= image.w \/ y < 0 \/ y >= image.h THEN None
    ELSE
        LET m == flood_loop(image, <<x, y>>, tolerance, << <<x, y>> >>, {<<x, y>>}, {})
        IN  [w |-> image.w, h |-> image.h,
             px |-> [c \in Coords(image.w, image.h) |-> IF c \in m THEN 255 ELSE 0]]

\* numpy broadcasting of two (h, w) arrays: each axis equal, or one of them 1
Broadcastable(a, b) ==
    /\ a.w = b.w \/ a.w = 1 \/ b.w = 1
    /\ a.h = b.h \/ a.h = 1 \/ b.h = 1

\* the element of a that numpy pairs with position c of the broadcast result
BroadcastGet(a, c) ==
    a.px[<<IF a.w = 1 THEN 0 ELSE c[1], IF a.h = 1 THEN 0 ELSE c[2]>>]

\* mutant of apply_selection_op: subtract clears where the incoming mask is 0
apply_selection_op_subtract_swapped(current_mask, new_selection, op) ==
    IF ~Truthy(new_selection) THEN current_mask
    ELSE IF ~Truthy(current_mask) \/ op = "replace" THEN new_selection
    ELSE IF ~Broadcastable(current_mask, new_selection) THEN Raised
    ELSE
        LET w == Max(current_mask.w, new_selection.w)
            h == Max(current_mask.h, new_selection.h)
            old(c) == BroadcastGet(current_mask, c)
            new(c) == BroadcastGet(new_selection, c)
        IN  [w |-> w, h |-> h,
             px |-> [c \in Coords(w, h) |->
                       CASE op = "add" -> Max(old(c), new(c))
                         [] op = "subtract" -> IF new(c) > 0 THEN old(c) ELSE 0
                         [] op = "intersect" -> Min(old(c), new(c))
                         [] OTHER -> old(c)]]

\* apply_selection_op(current_mask, new_selection, op)
st_apply_selection_op(current_mask, new_selection, op) ==
    IF ~Truthy(new_selection) THEN current_mask
    ELSE IF ~Truthy(current_mask) \/ op = "replace" THEN new_selection
    ELSE IF ~Broadcastable(current_mask, new_selection) /\ op \in {"add", "subtract", "intersect"}
    THEN Raised
    ELSE
        LET w == IF op \in {"add", "subtract", "intersect"}
                 THEN Max(current_mask.w, new_selection.w) ELSE current_mask.w
            h == IF op \in {"add", "subtract", "intersect"}
                 THEN Max(current_mask.h, new_selection.h) ELSE current_mask.h
            old(c) == BroadcastGet(current_mask, c)
            new(c) == BroadcastGet(new_selection, c)
        IN  [w |-> w, h |-> h,
             px |-> [c \in Coords(w, h) |->
                       CASE op = "add" -> Max(old(c), new(c))
                         [] op = "subtract" -> IF new(c) > 0 THEN 0 ELSE old(c)
                         [] op = "intersect" -> Min(old(c), new(c))
                         [] OTHER -> current_mask.px[c]]]

\* mutant of invert_selection: unselected pixels become selected and selected
\* ones stay selected
st_invert_selection_fills(mask) ==
    IF ~Truthy(mask) THEN None
    ELSE [w |-> mask.w, h |-> mask.h,
          px |-> [c \in Coords(mask.w, mask.h) |->
                     IF mask.px[c] = 0 THEN 255 ELSE mask.px[c]]]

\* invert_selection(mask)
st_invert_selection(mask) ==
    IF ~Truthy(mask) THEN None
    ELSE [w |-> mask.w, h |-> mask.h, px |-> [c \in Coords(mask.w, mask.h) |-> 255 - mask.px[c]]]

(***************************************************************************)
(* The displacement compositor: image_processing.py and the older copy in  *)
(* app.py.                                                                 *)
(***************************************************************************)
\* Image.resize(size, Image.NEAREST): a copy when the size is unchanged, else
\* output pixel (x, y) takes the source pixel at the floor of the centre of
\* its box, ((x + 0.5) * in_w / out_w, (y + 0.5) * in_h / out_h)
resize_nearest(img, w, h) ==
    IF img.w = w /\ img.h = h THEN img
    ELSE [w |-> w, h |-> h,
          px |-> [c \in Coords(w, h) |->
                    img.px[<<((2 * c[1] + 1) * img.w) \div (2 * w),
                             ((2 * c[2] + 1) * img.h) \div (2 * h)>>]]]

\* np.clip(v, lo, hi) and max(lo, min(hi, v))
Clip(v, lo, hi) == Max(lo, Min(hi, v))

\* mutant of apply_ss14_displacement: transparent displacement pixels sample too
apply_ss14_displacement_unguarded(reference, displacement) ==
    IF ~Truthy(reference) \/ ~Truthy(displacement) THEN None
    ELSE
        LET width == reference.w
            height == reference.h
            disp_data == resize_nearest(displacement, width, height)
        IN  [w |-> width, h |-> height,
             px |-> [c \in Coords(width, height) |->
                       reference.px[<<Clip(c[1] + (disp_data.px[c][1] - 128), 0, width - 1),
                                      Clip(c[2] + (disp_data.px[c][2] - 128), 0, height - 1)>>]]]

\* mutant of apply_ss14_displacement: the zero offset is taken to be 127
apply_ss14_displacement_from_127(reference, displacement) ==
    IF ~Truthy(reference) \/ ~Truthy(displacement) THEN None
    ELSE
        LET width == reference.w
            height == reference.h
            disp_data == resize_nearest(displacement, width, height)
        IN  [w |-> width, h |-> height,
             px |-> [c \in Coords(width, height) |->
                       IF disp_data.px[c][4] = 0 THEN TRANSPARENT_BLACK
                       ELSE reference.px[<<Clip(c[1] + (disp_data.px[c][1] - 127), 0, width - 1),
                                           Clip(c[2] + (disp_data.px[c][2] - 127), 0, height - 1)>>]]]

\* image_processing.apply_ss14_displacement(reference, displacement): the
\* offsets are computed in float32, so R - 128 and G - 128 are exact
apply_ss14_displacement(reference, displacement) ==
    IF ~Truthy(reference) \/ ~Truthy(displacement) THEN None
    ELSE
        LET width == reference.w
            height == reference.h
            disp_data == resize_nearest(displacement, width, height)
            offset_x(c) == disp_data.px[c][1] - 128
            offset_y(c) == disp_data.px[c][2] - 128
            sample_x(c) == Clip(c[1] + offset_x(c), 0, width - 1)
            sample_y(c) == Clip(c[2] + offset_y(c), 0, height - 1)
        IN  [w |-> width, h |-> height,
             px |-> [c \in Coords(width, height) |->
                       IF disp_data.px[c][4] = 0 THEN TRANSPARENT_BLACK
                       ELSE reference.px[<<sample_x(c), sample_y(c)>>]]]

\* disp_pixel[0] - 128 in app.py, where disp_pixel[0] is a numpy uint8 scalar
\* and 128 a Python int: an int64 difference under NumPy 1.x promotion, a
\* uint8 difference (modulo 256) under NumPy 2 promotion (NEP 50)
uint8_minus_128(v, nep50) == IF nep50 THEN (v - 128) % 256 ELSE v - 128

\* SS14DisplacementTool.apply_ss14_displacement(reference, displacement) of
\* app.py; nep50 tells which scalar promotion the installed NumPy applies
app_apply_ss14_displacement(reference, displacement, nep50) ==
    IF ~Truthy(reference) \/ ~Truthy(displacement) THEN None
    ELSE
        LET width == reference.w
            height == reference.h
            disp_data == resize_nearest(displacement, width, height)
            offset_x(c) == uint8_minus_128(disp_data.px[c][1], nep50)
            offset_y(c) == uint8_minus_128(disp_data.px[c][2], nep50)
            sample_x(c) == Max(0, Min(width - 1, c[1] + offset_x(c)))
            sample_y(c) == Max(0, Min(height - 1, c[2] + offset_y(c)))
        IN  [w |-> width, h |-> height,
             px |-> [c \in Coords(width, height) |->
                       IF disp_data.px[c][4] = 0 THEN TRANSPARENT_BLACK
                       ELSE reference.px[<<sample_x(c), sample_y(c)>>]]]

(***************************************************************************)
(* core.py: the undo log, the paint stroke and the whole-raster commands   *)
(***************************************************************************)
\* mutant of save_state: a full log drops the newest entry (pop() for pop(0))
save_state_drops_newest(img, stack) ==
    IF Truthy(img)
    THEN LET s == Append(stack, img)
         IN  IF Len(s) > max_undo_steps THEN SubSeq(s, 1, Len(s) - 1) ELSE s
    ELSE stack

\* save_state(): the undo log after the call (Image.copy() is a deep copy)
save_state(img, stack) ==
    IF Truthy(img)
    THEN LET s == Append(stack, img)
         IN  IF Len(s) > max_undo_steps THEN Tail(s) ELSE s
    ELSE stack

\* undo(): [img, stack] after the call
undo_result(img, stack) ==
    IF stack # << >>
    THEN [img |-> stack[Len(stack)], stack |-> SubSeq(stack, 1, Len(stack) - 1)]
    ELSE [img |-> img, stack |-> stack]

Clamp255(v) == Max(0, Min(255, v))

\* direction_modifiers.get(direction, (0, 0)) if tool == "paint" else (0, 0)
direction_modifier(tool, direction, strength) ==
    IF tool # "paint" THEN <<0, 0>>
    ELSE CASE direction = "right" -> <<strength, 0>>
           [] direction = "left" -> <<0 - strength, 0>>
           [] direction = "up" -> <<0, 0 - strength>>
           [] direction = "down" -> <<0, strength>>
           [] OTHER -> <<0, 0>>

\* mutant of paint_pixel: the channels wrap modulo 256 instead of clamping
paint_pixel_wraps(current, tool, mod) ==
    IF tool = "erase" THEN NEUTRAL_TRANSPARENT
    ELSE <<(current[1] + mod[1]) % 256, (current[2] + mod[2]) % 256, current[3], 255>>

\* the new value of one pixel of the footprint (core.py lines 383-392)
paint_pixel(current, tool, mod) ==
    IF tool = "erase" THEN NEUTRAL_TRANSPARENT
    ELSE <<Clamp255(current[1] + mod[1]), Clamp255(current[2] + mod[2]), current[3], 255>>

RECURSIVE paint_loop(_, _, _, _, _, _, _, _, _)
\* the dy/dx loops of paint_displacement from iteration i on (dy outer, dx
\* inner); sel is `selection_active and selection_mask`.  mask.getpixel
\* outside the mask raises IndexError and leaves the pixels painted so far.
paint_loop(img, mask, sel, tool, mod, radius, x, y, i) ==
    LET side == 2 * radius + 1
        dy == ((i - 1) \div side) - radius
        dx == ((i - 1) % side) - radius
        px == x + dx
        py == y + dy
    IN  IF i > side * side THEN [img |-> img, raised |-> FALSE]
        ELSE IF px < 0 \/ py < 0 \/ px >= img.w \/ py >= img.h
        THEN paint_loop(img, mask, sel, tool, mod, radius, x, y, i + 1)
        ELSE IF dx * dx + dy * dy > radius * radius
        THEN paint_loop(img, mask, sel, tool, mod, radius, x, y, i + 1)
        ELSE IF sel /\ ~InImage(mask, px, py)
        THEN [img |-> img, raised |-> TRUE]
        ELSE IF sel /\ mask.px[<<px, py>>] = 0
        THEN paint_loop(img, mask, sel, tool, mod, radius, x, y, i + 1)
        ELSE paint_loop(
                 [img EXCEPT !.px[<<px, py>>] = paint_pixel(img.px[<<px, py>>], tool, mod)],
                 mask, sel, tool, mod, radius, x, y, i + 1)

\* mutant of paint_displacement: no test of the mask at the centre
paint_displacement_any_centre(img, mask, active, tool, direction, size, strength, x, y) ==
    LET sel == active /\ Truthy(mask)
    IN  IF ~Truthy(img) THEN [img |-> img, raised |-> FALSE]
        ELSE paint_loop(img, mask, sel, tool,
                        direction_modifier(tool, direction, strength),
                        size \div 2, x, y, 1)

\* paint_displacement(x, y): [img, raised] after the call
paint_displacement(img, mask, active, tool, direction, size, strength, x, y) ==
    LET sel == active /\ Truthy(mask)
    IN  IF ~Truthy(img) THEN [img |-> img, raised |-> FALSE]
        ELSE IF sel /\ ~InImage(mask, x, y) THEN [img |-> img, raised |-> TRUE]
        ELSE IF sel /\ mask.px[<<x, y>>] = 0 THEN [img |-> img, raised |-> FALSE]
        ELSE paint_loop(img, mask, sel, tool,
                        direction_modifier(tool, direction, strength),
                        size \div 2, x, y, 1)

\* np.array([...], dtype=np.uint8) of one Python int outside 0..255: NumPy 2
\* raises OverflowError, earlier releases wrap the value
uint8_overflows(v, numpy2) == numpy2 /\ v \notin 0 .. 255

uint8_of(v) == v % 256

\* image_processing.paint_displacement_brush(displacement_map, x, y,
\* brush_size, direction, strength, drawing_mode, selection_mask), with
\* img for displacement_map, sel_mask for selection_mask, mode for
\* drawing_mode and size for brush_size: [img, raised] where img is the
\* returned raster.  The four direction_values are built before the mode is
\* looked at.  The slice of the mask pairs with
\* the slice of the raster by numpy broadcasting, and the boolean index has
\* to have the shape of the raster slice.
paint_displacement_brush(img, sel_mask, mode, direction, size, strength, x, y, numpy2) ==
    IF ~Truthy(img) THEN [img |-> img, raised |-> FALSE]
    ELSE
    LET width == img.w
        height == img.h
        radius == size \div 2
        overflows == \/ uint8_overflows(128 + strength, numpy2)
                     \/ uint8_overflows(128 - strength, numpy2)
        plus == uint8_of(128 + strength)
        minus == uint8_of(128 - strength)
        known == direction \in {"right", "left", "up", "down"}
        value == CASE direction = "right" -> <<plus, 128, 0, 255>>
                   [] direction = "left" -> <<minus, 128, 0, 255>>
                   [] direction = "up" -> <<128, minus, 0, 255>>
                   [] direction = "down" -> <<128, plus, 0, 255>>
                   [] OTHER -> NEUTRAL_OPAQUE
        x_min == Max(0, x - radius)
        x_max == Min(width, x + radius + 1)
        y_min == Max(0, y - radius)
        y_max == Min(height, y + radius + 1)
        in_brush(c) == (c[1] - x) * (c[1] - x) + (c[2] - y) * (c[2] - y) <= radius * radius
        slice == {c \in Coords(width, height) :
                     c[1] >= x_min /\ c[1] < x_max /\ c[2] >= y_min /\ c[2] < y_max}
        sel == Truthy(sel_mask)
        sl_w == IF sel THEN Max(0, Min(x_max, sel_mask.w) - Min(x_min, sel_mask.w))
                ELSE 0
        sl_h == IF sel THEN Max(0, Min(y_max, sel_mask.h) - Min(y_min, sel_mask.h))
                ELSE 0
        fits == /\ sl_w = x_max - x_min \/ sl_w = 1
                /\ sl_h = y_max - y_min \/ sl_h = 1
        sel_at(c) == sel_mask.px[<<IF sl_w = 1 THEN Min(x_min, sel_mask.w - 1)
                                                     ELSE c[1],
                                         IF sl_h = 1 THEN Min(y_min, sel_mask.h - 1)
                                                     ELSE c[2]>>]
        stamped == {c \in slice : in_brush(c) /\ (sel => sel_at(c) > 0)}
        new == IF mode = "erase" THEN NEUTRAL_TRANSPARENT ELSE value
    IN  IF overflows
        THEN [img |-> img, raised |-> TRUE]
        ELSE IF x_min >= x_max \/ y_min >= y_max \/ {c \in slice : in_brush(c)} = {}
        THEN [img |-> img, raised |-> FALSE]
        ELSE IF sel /\ ~fits
        THEN [img |-> img, raised |-> TRUE]
        ELSE IF mode # "erase" /\ ~known
        THEN [img |-> img, raised |-> TRUE]
        ELSE [img |-> [img EXCEPT !.px =
                          [c \in DOMAIN img.px |->
                              IF c \in stamped THEN new ELSE img.px[c]]],
              raised |-> FALSE]

\* mutant of flip_image: the green channel is copied into red but red is not
\* copied into green
flip_image_without_copy(img) ==
    [img EXCEPT !.px = [c \in DOMAIN img.px |->
                          <<img.px[c][2], img.px[c][2], img.px[c][3], img.px[c][4]>>]]

\* the raster flip_displacement() installs: R and G swapped
flip_image(img) ==
    [img EXCEPT !.px = [c \in DOMAIN img.px |->
                          <<img.px[c][2], img.px[c][1], img.px[c][3], img.px[c][4]>>]]

\* mutant of process_image: the import keeps the file's pixels as they are
process_image_keeps_pixels(img) == img

\* process_image of load_displacement: transparent pixels become neutral
process_image(img) ==
    [img EXCEPT !.px = [c \in DOMAIN img.px |->
                          IF img.px[c][4] = 0 THEN NEUTRAL_TRANSPARENT ELSE img.px[c]]]

\* mutant of canvas_to_image_coords: a position outside the raster is moved
\* to the nearest pixel
canvas_to_image_coords_clamped(img, ev) ==
    IF ~Truthy(img) THEN None
    ELSE Pos(Max(0, Min(img.w - 1, ev[1])), Max(0, Min(img.h - 1, ev[2])))

\* canvas_to_image_coords(event, canvas): ev is the event's position already
\* scaled to image pixels; the result is the position or None
canvas_to_image_coords(img, ev) ==
    IF ~Truthy(img) THEN None
    ELSE IF 0 <= ev[1] /\ ev[1] < img.w /\ 0 <= ev[2] /\ ev[2] < img.h
    THEN Pos(ev[1], ev[2])
    ELSE None

\* apply_selection(new_selection): [mask, active, raised] after the call
apply_selection(mask, active, new_selection, op) ==
    IF ~Truthy(new_selection) THEN [mask |-> mask, active |-> active, raised |-> FALSE]
    ELSE LET r == st_apply_selection_op(mask, new_selection, op)
         IN  IF r = Raised
             THEN [mask |-> mask, active |-> active, raised |-> TRUE]
             ELSE [mask |-> r, active |-> TRUE, raised |-> FALSE]

(***************************************************************************)
(* core.py: the handlers.  Each is one action on the session variables;    *)
(* update_displays() and the brush preview only draw.  An exception        *)
(* leaving a handler is reported by Tk's callback wrapper and the          *)
(* assignments made before it stay.                                        *)
(***************************************************************************)
\* canvas_click(event)
canvas_click(ev) ==
    LET pos == canvas_to_image_coords(displacement_image, ev)
    IN  IF ~Truthy(displacement_image) \/ ~Truthy(pos)
        THEN UNCHANGED sessionVars
        ELSE IF current_tool \in {"paint", "erase"}
        THEN /\ undo_stack' = save_state(displacement_image, undo_stack)
             /\ is_drawing' = TRUE
             /\ displacement_image' =
                    paint_displacement(displacement_image, selection_mask, selection_active,
                                       current_tool, displacement_direction, brush_size,
                                       paint_strength, pos.x, pos.y).img
             /\ UNCHANGED <<reference_image, background_image, selVars, settingVars,
                            selection_start, temp_selection, lasso_points>>
        ELSE IF current_tool = "rect"
        THEN /\ selection_start' = pos
             /\ temp_selection' = None
             /\ UNCHANGED <<imageVars, selVars, settingVars, lasso_points, is_drawing,
                            undo_stack>>
        ELSE IF current_tool = "lasso"
        THEN /\ lasso_points' = <<pos>>
             /\ UNCHANGED <<imageVars, selVars, settingVars, selection_start,
                            temp_selection, is_drawing, undo_stack>>
        ELSE IF current_tool = "magic"
        THEN LET r == apply_selection(selection_mask, selection_active,
                          st_magic_select(displacement_image, pos.x, pos.y, magic_tolerance),
                          selection_op)
             IN  /\ selection_mask' = r.mask
                 /\ selection_active' = r.active
                 /\ UNCHANGED <<imageVars, settingVars, gestureVars, undo_stack>>
        ELSE UNCHANGED sessionVars

\* mutant of canvas_drag: every stroke of a drag pushes its own snapshot
canvas_drag_snapshots(ev) ==
    LET pos == canvas_to_image_coords(displacement_image, ev)
    IN  IF ~Truthy(displacement_image) \/ ~Truthy(pos)
        THEN UNCHANGED sessionVars
        ELSE IF current_tool \in {"paint", "erase"} /\ is_drawing
        THEN /\ displacement_image' =
                    paint_displacement(displacement_image, selection_mask, selection_active,
                                       current_tool, displacement_direction, brush_size,
                                       paint_strength, pos.x, pos.y).img
             /\ undo_stack' = save_state(displacement_image, undo_stack)
             /\ UNCHANGED <<reference_image, background_image, selVars, settingVars,
                            gestureVars>>
        ELSE IF current_tool = "rect" /\ Truthy(selection_start)
        THEN /\ temp_selection' = create_rect_selection(selection_start, pos,
                                      displacement_image.w, displacement_image.h)
             /\ UNCHANGED <<imageVars, selVars, settingVars, selection_start,
                            lasso_points, is_drawing, undo_stack>>
        ELSE IF current_tool = "lasso"
        THEN /\ lasso_points' = Append(lasso_points, pos)
             /\ UNCHANGED <<imageVars, selVars, settingVars, selection_start,
                            temp_selection, is_drawing, undo_stack>>
        ELSE UNCHANGED sessionVars

\* canvas_drag(event)
canvas_drag(ev) ==
    LET pos == canvas_to_image_coords(displacement_image, ev)
    IN  IF ~Truthy(displacement_image) \/ ~Truthy(pos)
        THEN UNCHANGED sessionVars
        ELSE IF current_tool \in {"paint", "erase"} /\ is_drawing
        THEN /\ displacement_image' =
                    paint_displacement(displacement_image, selection_mask, selection_active,
                                       current_tool, displacement_direction, brush_size,
                                       paint_strength, pos.x, pos.y).img
             /\ UNCHANGED <<reference_image, background_image, selVars, settingVars,
                            gestureVars, undo_stack>>
        ELSE IF current_tool = "rect" /\ Truthy(selection_start)
        THEN /\ temp_selection' = create_rect_selection(selection_start, pos,
                                      displacement_image.w, displacement_image.h)
             /\ UNCHANGED <<imageVars, selVars, settingVars, selection_start,
                            lasso_points, is_drawing, undo_stack>>
        ELSE IF current_tool = "lasso"
        THEN /\ lasso_points' = Append(lasso_points, pos)
             /\ UNCHANGED <<imageVars, selVars, settingVars, selection_start,
                            temp_selection, is_drawing, undo_stack>>
        ELSE UNCHANGED sessionVars

\* canvas_release(event)
canvas_release ==
    IF current_tool \in {"paint", "erase"}
    THEN /\ is_drawing' = FALSE
         /\ UNCHANGED <<imageVars, selVars, settingVars, selection_start,
                        temp_selection, lasso_points, undo_stack>>
    ELSE IF current_tool = "rect" /\ Truthy(temp_selection)
    THEN LET r == apply_selection(selection_mask, selection_active, temp_selection,
                                  selection_op)
         IN  /\ selection_mask' = r.mask
             /\ selection_active' = r.active
             /\ temp_selection' = IF r.raised THEN temp_selection ELSE None
             /\ UNCHANGED <<imageVars, settingVars, selection_start, lasso_points,
                            is_drawing, undo_stack>>
    ELSE IF current_tool = "lasso" /\ Len(lasso_points) > 2
    THEN LET r == apply_selection(selection_mask, selection_active,
                      create_lasso_selection(lasso_points, displacement_image.w,
                                             displacement_image.h),
                      selection_op)
         IN  /\ selection_mask' = r.mask
             /\ selection_active' = r.active
             /\ lasso_points' = IF r.raised THEN lasso_points ELSE << >>
             /\ UNCHANGED <<imageVars, settingVars, selection_start, temp_selection,
                            is_drawing, undo_stack>>
    ELSE UNCHANGED sessionVars

\* select_all()
select_all ==
    IF ~Truthy(displacement_image) THEN UNCHANGED sessionVars
    ELSE /\ selection_mask' = NewImage(displacement_image.w, displacement_image.h, 255)
         /\ selection_active' = TRUE
         /\ UNCHANGED <<imageVars, settingVars, gestureVars, undo_stack>>

\* mutant of deselect_all: the flag is cleared and the mask is kept
deselect_all_keeps_mask ==
    /\ selection_active' = FALSE
    /\ UNCHANGED <<imageVars, selection_mask, settingVars, gestureVars, undo_stack>>

\* deselect_all()
deselect_all ==
    /\ selection_mask' = None
    /\ selection_active' = FALSE
    /\ UNCHANGED <<imageVars, settingVars, gestureVars, undo_stack>>

\* invert_selection()
invert_selection ==
    IF ~Truthy(displacement_image) THEN UNCHANGED sessionVars
    ELSE /\ selection_mask' = st_invert_selection(selection_mask)
         /\ UNCHANGED <<imageVars, selection_active, settingVars, gestureVars, undo_stack>>

\* mutant of undo: restoring a snapshot also drops the selection
undo_drops_selection ==
    LET r == undo_result(displacement_image, undo_stack)
    IN  /\ displacement_image' = r.img
        /\ undo_stack' = r.stack
        /\ selection_mask' = IF undo_stack = << >> THEN selection_mask ELSE None
        /\ selection_active' = (undo_stack = << >> /\ selection_active)
        /\ UNCHANGED <<reference_image, background_image, settingVars, gestureVars>>

\* undo()
undo ==
    LET r == undo_result(displacement_image, undo_stack)
    IN  /\ displacement_image' = r.img
        /\ undo_stack' = r.stack
        /\ UNCHANGED <<reference_image, background_image, selVars, settingVars,
                       gestureVars>>

\* flip_displacement()
flip_displacement ==
    IF ~Truthy(displacement_image) THEN UNCHANGED sessionVars
    ELSE /\ undo_stack' = save_state(displacement_image, undo_stack)
         /\ displacement_image' = flip_image(displacement_image)
         /\ UNCHANGED <<reference_image, background_image, selVars, settingVars,
                        gestureVars>>

\* mutant of clear: the raster is replaced without a snapshot
clear_without_snapshot ==
    IF ~Truthy(displacement_image) THEN UNCHANGED sessionVars
    ELSE /\ displacement_image' =
                NewImage(displacement_image.w, displacement_image.h, NEUTRAL_OPAQUE)
         /\ UNCHANGED <<reference_image, background_image, selVars, settingVars,
                        gestureVars, undo_stack>>

\* clear()
clear ==
    IF ~Truthy(displacement_image) THEN UNCHANGED sessionVars
    ELSE /\ undo_stack' = save_state(displacement_image, undo_stack)
         /\ displacement_image' =
                NewImage(displacement_image.w, displacement_image.h, NEUTRAL_OPAQUE)
         /\ UNCHANGED <<reference_image, background_image, selVars, settingVars,
                        gestureVars>>

\* create_new(): dialog is what get_size_from_dialog() returns, a size [w, h]
\* or None when the dialog is closed
create_new(dialog) ==
    LET base_image == IF Truthy(reference_image) THEN reference_image ELSE background_image
        size == IF Truthy(base_image) THEN [w |-> base_image.w, h |-> base_image.h]
                ELSE dialog
    IN  IF Truthy(size)
        THEN /\ displacement_image' = NewImage(size.w, size.h, NEUTRAL_OPAQUE)
             /\ UNCHANGED <<reference_image, background_image, selVars, settingVars,
                            gestureVars, undo_stack>>
        ELSE UNCHANGED sessionVars

\* load_displacement(): file is the decoded RGBA image the user picked, or
\* None when the file dialog is cancelled or decoding fails
load_displacement(file) ==
    IF Truthy(file)
    THEN /\ displacement_image' = process_image(file)
         /\ UNCHANGED <<reference_image, background_image, selVars, settingVars,
                        gestureVars, undo_stack>>
    ELSE UNCHANGED sessionVars

\* load_reference()
load_reference(file) ==
    IF Truthy(file)
    THEN /\ reference_image' = file
         /\ UNCHANGED <<displacement_image, background_image, selVars, settingVars,
                        gestureVars, undo_stack>>
    ELSE UNCHANGED sessionVars

\* load_background()
load_background(file) ==
    IF Truthy(file)
    THEN /\ background_image' = file
         /\ UNCHANGED <<displacement_image, reference_image, selVars, settingVars,
                        gestureVars, undo_stack>>
    ELSE UNCHANGED sessionVars

\* the tool radio buttons (ui.py setup_controls) write current_tool
set_current_tool(t) ==
    /\ current_tool' = t
    /\ UNCHANGED <<imageVars, selVars, selection_op, brush_size, paint_strength,
                   magic_tolerance, displacement_direction, gestureVars, undo_stack>>

\* the selection-op radio buttons write selection_op
set_selection_op(o) ==
    /\ selection_op' = o
    /\ UNCHANGED <<imageVars, selVars, current_tool, brush_size, paint_strength,
                   magic_tolerance, displacement_direction, gestureVars, undo_stack>>

\* the direction radio buttons write displacement_direction
set_displacement_direction(d) ==
    /\ displacement_direction' = d
    /\ UNCHANGED <<imageVars, selVars, current_tool, selection_op, brush_size,
                   paint_strength, magic_tolerance, gestureVars, undo_stack>>

\* the brush-size spinbox writes brush_size
set_brush_size(n) ==
    /\ brush_size' = n
    /\ UNCHANGED <<imageVars, selVars, current_tool, selection_op, paint_strength,
                   magic_tolerance, displacement_direction, gestureVars, undo_stack>>

(***************************************************************************)
(* Initial states                                                          *)
(***************************************************************************)
\* __init__: the session as constructed
InitSession ==
    /\ displacement_image = None
    /\ reference_image = None
    /\ background_image = None
    /\ selection_mask = None
    /\ selection_active = FALSE
    /\ current_tool = "paint"
    /\ selection_op = "replace"
    /\ selection_start = None
    /\ temp_selection = None
    /\ lasso_points = << >>
    /\ brush_size = 5
    /\ paint_strength = 1
    /\ magic_tolerance = 32
    /\ is_drawing = FALSE
    /\ displacement_direction = "right"
    /\ undo_stack = << >>

InitHistory ==
    /\ pushed = << >>
    /\ undo_expect = None
    /\ gesture = [phase |-> "idle"]
    /\ noted = "none"

InitFn ==
    /\ call = None
    /\ ret = None
    /\ frame = None

(***************************************************************************)
(* SpecUndo: the undo log under many pushes.  The session starts with a    *)
(* new 1x1 canvas and the brush size 1; paint clicks (strength 1, right)   *)
(* and clear() push snapshots that differ from their neighbours, undo()    *)
(* pops.                                                                   *)
(***************************************************************************)
InitUndo ==
    /\ displacement_image = NewImage(1, 1, NEUTRAL_OPAQUE)
    /\ reference_image = None
    /\ background_image = None
    /\ selection_mask = None
    /\ selection_active = FALSE
    /\ current_tool = "paint"
    /\ selection_op = "replace"
    /\ selection_start = None
    /\ temp_selection = None
    /\ lasso_points = << >>
    /\ brush_size = 1
    /\ paint_strength = 1
    /\ magic_tolerance = 32
    /\ is_drawing = FALSE
    /\ displacement_direction = "right"
    /\ undo_stack = << >>
    /\ InitHistory
    /\ InitFn

\* history: a snapshot of the current raster is handed to the log
NotePush ==
    /\ pushed' = Append(pushed, displacement_image)
    /\ undo_expect' = None

\* history: undo() was called; if the log held something, the newest snapshot
\* handed to it and not yet returned is what it owes
NoteUndo ==
    IF undo_stack # << >>
    THEN /\ undo_expect' = pushed[Len(pushed)]
         /\ pushed' = SubSeq(pushed, 1, Len(pushed) - 1)
    ELSE /\ undo_expect' = None
         /\ UNCHANGED pushed

NoteOther ==
    /\ undo_expect' = None
    /\ UNCHANGED pushed

UndoClick ==
    /\ Len(pushed) < MaxPushes
    /\ canvas_click(<<0, 0>>)
    /\ NotePush
    /\ UNCHANGED <<gesture, noted, fnVars>>

UndoRelease ==
    /\ canvas_release
    /\ NoteOther
    /\ UNCHANGED <<gesture, noted, fnVars>>

UndoClear ==
    /\ Len(pushed) < MaxPushes
    /\ clear
    /\ NotePush
    /\ UNCHANGED <<gesture, noted, fnVars>>

UndoUndo ==
    /\ undo
    /\ NoteUndo
    /\ UNCHANGED <<gesture, noted, fnVars>>

NextUndo == UndoClick \/ UndoRelease \/ UndoClear \/ UndoUndo

SpecUndo == InitUndo /\ [][NextUndo]_vars

IsSuffix(s, t) ==
    /\ Len(s) <= Len(t)
    /\ s = SubSeq(t, Len(t) - Len(s) + 1, Len(t))

\* the log holds at most max_undo_steps snapshots, they are the newest of the
\* snapshots pushed and not yet popped, in push order, and an undo that popped
\* has restored the newest of them
UndoLogState ==
    /\ Len(undo_stack) <= max_undo_steps
    /\ IsSuffix(undo_stack, pushed)
    /\ Truthy(undo_expect) => displacement_image = undo_expect

\* C1: after any sequence of save_state pushes and undo() calls the undo log
\* holds at most 10 snapshots, which are the most recently pushed and not yet
\* popped ones in push order; a push grows the log by exactly one entry unless
\* the log is full, when only the oldest entry goes; undo returns the newest.
C1_UndoLogBoundedLifo ==
    [][/\ UndoLogState'
       /\ Len(pushed') > Len(pushed) =>
              /\ Len(undo_stack') = Min(Len(undo_stack) + 1, max_undo_steps)
              /\ undo_stack'[Len(undo_stack')] = displacement_image
       /\ Len(pushed') < Len(pushed) =>
              undo_stack' = SubSeq(undo_stack, 1, Len(undo_stack) - 1)]_vars

\* C1 witness: more than 10 snapshots were pushed, the oldest were evicted, and
\* an undo has just returned the newest of a full log
C1_Witness ==
    /\ Truthy(undo_expect)
    /\ Len(undo_stack) = max_undo_steps - 1
    /\ Len(pushed) > Len(undo_stack) + 1

(***************************************************************************)
(* Spec: paint and erase gestures on a PaintW x 1 canvas, with the         *)
(* selection commands and undo.  The user has typed brush size 1 and       *)
(* strength 127 into the spin boxes (ttk.Spinbox takes typed values as     *)
(* they are), so that one stroke to the right saturates a channel.         *)
(***************************************************************************)
Init ==
    /\ displacement_image = None
    /\ reference_image = None
    /\ background_image = None
    /\ selection_mask = None
    /\ selection_active = FALSE
    /\ current_tool = "paint"
    /\ selection_op = "replace"
    /\ selection_start = None
    /\ temp_selection = None
    /\ lasso_points = << >>
    /\ brush_size = 1
    /\ paint_strength = 127
    /\ magic_tolerance = 32
    /\ is_drawing = FALSE
    /\ displacement_direction = "right"
    /\ undo_stack = << >>
    /\ InitHistory
    /\ InitFn

\* pointer positions in image pixels: every pixel of the canvas and one
\* position left of it
Pointer == ((-1) .. (PaintW - 1)) \X {0}

Idle == [phase |-> "idle"]

\* the history other than gesture, after a step no claim singles out
Quiet ==
    /\ noted' = "none"
    /\ UNCHANGED <<pushed, undo_expect, fnVars>>

\* the click at ev begins a paint gesture: a raster is loaded, the position is
\* inside it and the tool is Paint or Erase
BeginsPaint(ev) ==
    /\ Truthy(displacement_image)
    /\ Truthy(canvas_to_image_coords(displacement_image, ev))
    /\ current_tool \in {"paint", "erase"}

Begin ==
    \E ev \in Pointer :
        /\ BeginsPaint(ev) => Len(undo_stack) < MaxStack
        /\ canvas_click(ev)
        /\ gesture' = IF BeginsPaint(ev)
                      THEN [phase |-> "begun", raster |-> displacement_image,
                            log |-> undo_stack, continued |-> FALSE]
                      ELSE Idle
        /\ Quiet

Continue ==
    \E ev \in Pointer :
        /\ canvas_drag(ev)
        /\ gesture' = IF gesture.phase = "begun"
                      THEN [gesture EXCEPT !.continued =
                                @ \/ Truthy(canvas_to_image_coords(displacement_image, ev))]
                      ELSE Idle
        /\ Quiet

End ==
    /\ canvas_release
    /\ gesture' = IF gesture.phase = "begun" THEN [gesture EXCEPT !.phase = "ended"] ELSE Idle
    /\ Quiet

Undo ==
    /\ undo
    /\ gesture' = IF gesture.phase = "ended" THEN [gesture EXCEPT !.phase = "undone"] ELSE Idle
    /\ Quiet

NewCanvas ==
    /\ create_new([w |-> PaintW, h |-> 1])
    /\ gesture' = Idle
    /\ Quiet

SetTool ==
    \E t \in {"paint", "erase"} :
        /\ set_current_tool(t)
        /\ gesture' = Idle
        /\ Quiet

SelectAll ==
    /\ select_all
    /\ gesture' = Idle
    /\ Quiet

Deselect ==
    /\ deselect_all
    /\ gesture' = Idle
    /\ Quiet

Invert ==
    /\ invert_selection
    /\ gesture' = Idle
    /\ noted' = IF Truthy(displacement_image) /\ ~Truthy(selection_mask)
                THEN "inverted no selection" ELSE "none"
    /\ UNCHANGED <<pushed, undo_expect, fnVars>>

Next ==
    \/ NewCanvas
    \/ Begin
    \/ Continue
    \/ End
    \/ Undo
    \/ SetTool
    \/ SelectAll
    \/ Deselect
    \/ Invert

Spec == Init /\ [][Next]_vars

\* C2: a Paint or Erase begin inside the raster, any number of continue
\* events and an end push exactly one snapshot, the raster as it was before
\* the begin; one undo() afterwards restores that raster pixel for pixel and
\* leaves the log as it was before the gesture.
C2_DragIsOneUndoUnit ==
    /\ gesture.phase \in {"begun", "ended"} =>
           undo_stack = Append(gesture.log, gesture.raster)
    /\ gesture.phase = "undone" =>
           /\ displacement_image = gesture.raster
           /\ undo_stack = gesture.log

\* C2 witness: a gesture with a continue event inside the raster changed the
\* raster, ended, and was undone
C2_Witness ==
    /\ gesture.phase = "undone"
    /\ gesture.continued
    /\ gesture.raster # NewImage(PaintW, 1, NEUTRAL_OPAQUE)

(***************************************************************************)
(* SpecEdit: the commands that write the displacement raster: new canvas,  *)
(* load with import cleanup, paint and erase gestures, flip, clear, undo.  *)
(* Rasters are up to EditW wide; files hold a transparent pixel with stale *)
(* colour and an opaque displaced one.                                     *)
(***************************************************************************)
FilePixels == {<<7, 9, 0, 0>>, <<255, 128, 0, 255>>}

\* the decoded images a file dialog can deliver
EditFiles ==
    UNION {{[w |-> w, h |-> 1, px |-> f] : f \in [Coords(w, 1) -> FilePixels]} :
           w \in 1 .. EditW}

EditPointer == ((-1) .. (EditW - 1)) \X {0}

\* a command that calls save_state() is explored while the log is short
LogIsShort == Truthy(displacement_image) => Len(undo_stack) < MaxStack

EditNew ==
    \E w \in 1 .. EditW :
        /\ create_new([w |-> w, h |-> 1])
        /\ UNCHANGED <<historyVars, fnVars>>

EditLoad ==
    \E file \in EditFiles \cup {None} :
        /\ load_displacement(file)
        /\ UNCHANGED <<historyVars, fnVars>>

EditClick ==
    \E ev \in EditPointer :
        /\ LogIsShort
        /\ canvas_click(ev)
        /\ UNCHANGED <<historyVars, fnVars>>

EditDrag ==
    \E ev \in EditPointer :
        /\ canvas_drag(ev)
        /\ UNCHANGED <<historyVars, fnVars>>

EditRelease ==
    /\ canvas_release
    /\ UNCHANGED <<historyVars, fnVars>>

EditFlip ==
    /\ LogIsShort
    /\ flip_displacement
    /\ UNCHANGED <<historyVars, fnVars>>

EditClear ==
    /\ LogIsShort
    /\ clear
    /\ UNCHANGED <<historyVars, fnVars>>

EditUndo ==
    /\ undo
    /\ UNCHANGED <<historyVars, fnVars>>

EditSetTool ==
    \E t \in {"paint", "erase"} :
        /\ set_current_tool(t)
        /\ UNCHANGED <<historyVars, fnVars>>

NextEdit ==
    \/ EditNew
    \/ EditLoad
    \/ EditClick
    \/ EditDrag
    \/ EditRelease
    \/ EditFlip
    \/ EditClear
    \/ EditUndo
    \/ EditSetTool

SpecEdit == Init /\ [][NextEdit]_vars

\* C4: in every reachable state every pixel of the current displacement
\* raster whose alpha is 0 is exactly (128,128,0,0).
C4_TransparentIsNeutral ==
    Truthy(displacement_image) =>
        \A c \in DOMAIN displacement_image.px :
            displacement_image.px[c][4] = 0 =>
                displacement_image.px[c] = NEUTRAL_TRANSPARENT

\* C4 witness: a raster with a transparent pixel and an empty undo log: no
\* gesture or command put the pixel there, it came in with a loaded file
C4_Witness ==
    /\ Truthy(displacement_image)
    /\ \E c \in DOMAIN displacement_image.px : displacement_image.px[c][4] = 0
    /\ undo_stack = << >>
    /\ ~is_drawing

\* C7: invert_selection() on a session with a displacement raster and no
\* selection leaves the selection active with every pixel selected (an
\* all-255 mask of the raster's size).
C7_InvertAbsentSelectsAll ==
    noted = "inverted no selection" =>
        /\ selection_active
        /\ Truthy(selection_mask)
        /\ selection_mask = NewImage(displacement_image.w, displacement_image.h, 255)

(***************************************************************************)
(* SpecSelect: the selection commands and gestures (rectangle, lasso,      *)
(* magic wand) together with the commands that replace the displacement    *)
(* raster: new canvas and load with any size up to MaxW x 1, undo, clear,  *)
(* flip.  The rectangle tool is chosen at the start.                       *)
(***************************************************************************)
InitSelect ==
    /\ displacement_image = None
    /\ reference_image = None
    /\ background_image = None
    /\ selection_mask = None
    /\ selection_active = FALSE
    /\ current_tool = "rect"
    /\ selection_op = "replace"
    /\ selection_start = None
    /\ temp_selection = None
    /\ lasso_points = << >>
    /\ brush_size = 5
    /\ paint_strength = 1
    /\ magic_tolerance = 32
    /\ is_drawing = FALSE
    /\ displacement_direction = "right"
    /\ undo_stack = << >>
    /\ InitHistory
    /\ InitFn

\* one file per width: a stale transparent first pixel, the rest opaque
SelectFiles ==
    {[w |-> w, h |-> 1,
      px |-> [c \in Coords(w, 1) |->
                 IF c[1] = 0 THEN <<7, 9, 0, 0>> ELSE <<255, 128, 0, 255>>]] :
     w \in 1 .. MaxW}

SelectPointer == ((-1) .. (MaxW - 1)) \X {0}

SelNew ==
    \E dialog \in {[w |-> w, h |-> 1] : w \in 1 .. MaxW} \cup {None} :
        /\ create_new(dialog)
        /\ UNCHANGED <<historyVars, fnVars>>

SelLoad ==
    \E file \in SelectFiles \cup {None} :
        /\ load_displacement(file)
        /\ UNCHANGED <<historyVars, fnVars>>

SelClick ==
    \E ev \in SelectPointer :
        /\ canvas_click(ev)
        /\ UNCHANGED <<historyVars, fnVars>>

SelDrag ==
    \E ev \in SelectPointer :
        /\ current_tool = "lasso" => Len(lasso_points) < MaxLasso
        /\ canvas_drag(ev)
        /\ UNCHANGED <<historyVars, fnVars>>

SelRelease ==
    /\ canvas_release
    /\ UNCHANGED <<historyVars, fnVars>>

SelSelectAll ==
    /\ select_all
    /\ UNCHANGED <<historyVars, fnVars>>

SelDeselect ==
    /\ deselect_all
    /\ UNCHANGED <<historyVars, fnVars>>

SelInvert ==
    /\ invert_selection
    /\ UNCHANGED <<historyVars, fnVars>>

SelUndo ==
    /\ undo
    /\ UNCHANGED <<historyVars, fnVars>>

SelClear ==
    /\ LogIsShort
    /\ clear
    /\ UNCHANGED <<historyVars, fnVars>>

SelFlip ==
    /\ LogIsShort
    /\ flip_displacement
    /\ UNCHANGED <<historyVars, fnVars>>

SelSetTool ==
    \E t \in {"rect", "lasso", "magic"} :
        /\ set_current_tool(t)
        /\ UNCHANGED <<historyVars, fnVars>>

SelSetOp ==
    \E o \in {"replace", "add", "subtract", "intersect"} :
        /\ set_selection_op(o)
        /\ UNCHANGED <<historyVars, fnVars>>

NextSelect ==
    \/ SelNew
    \/ SelLoad
    \/ SelClick
    \/ SelDrag
    \/ SelRelease
    \/ SelSelectAll
    \/ SelDeselect
    \/ SelInvert
    \/ SelUndo
    \/ SelClear
    \/ SelFlip
    \/ SelSetTool
    \/ SelSetOp

SpecSelect == InitSelect /\ [][NextSelect]_vars

\* C3: in every reachable state, an active selection has a mask, and the mask
\* has the width and height of the current displacement raster.
C3_ActiveMaskFitsRaster ==
    selection_active =>
        /\ Truthy(selection_mask)
        /\ Truthy(displacement_image)
        /\ selection_mask.w = displacement_image.w
        /\ selection_mask.h = displacement_image.h

(***************************************************************************)
(* SpecSel: the pure mask functions of selection_tools.py.  Init draws one *)
(* call (function and arguments) from the masks of every width up to MaxW  *)
(* and height 1; the actions perform it and record what it returns.  The   *)
(* session itself stays in its constructor state.                          *)
(***************************************************************************)
\* the values a selection mask holds (mode "L", written only as 0 or 255)
MaskValues == {0, 255}

SelMasks ==
    UNION {{[w |-> w, h |-> 1, px |-> f] : f \in [Coords(w, 1) -> MaskValues]} :
           w \in 1 .. MaxW}

SelectionOps == {"replace", "add", "subtract", "intersect"}

AllZero(m) == \A c \in DOMAIN m.px : m.px[c] = 0

SelCalls ==
    [fn : {"apply_selection_op"}, current : SelMasks \cup {None},
     incoming : SelMasks \cup {None}, op : SelectionOps]
    \cup [fn : {"invert_selection"}, mask : SelMasks \cup {None}]

InitSel ==
    /\ InitSession
    /\ InitHistory
    /\ call \in SelCalls
    /\ ret = None
    /\ frame = None

CallApplySelectionOp ==
    /\ ret = None
    /\ call.fn = "apply_selection_op"
    /\ ret' = [val |-> st_apply_selection_op(call.current, call.incoming, call.op)]
    /\ UNCHANGED <<sessionVars, historyVars, call, frame>>

CallInvertSelection ==
    /\ ret = None
    /\ call.fn = "invert_selection"
    /\ ret' = [val |-> st_invert_selection(call.mask)]
    /\ UNCHANGED <<sessionVars, historyVars, call, frame>>

\* invert_selection called a second time, on the mask the first call returned
CallInvertSelectionAgain ==
    /\ Truthy(ret)
    /\ call.fn = "invert_selection"
    /\ DOMAIN ret = {"val"}
    /\ ret' = [val |-> ret.val, twice |-> st_invert_selection(ret.val)]
    /\ UNCHANGED <<sessionVars, historyVars, call, frame>>

NextSel ==
    \/ CallApplySelectionOp
    \/ CallInvertSelection
    \/ CallInvertSelectionAgain

SpecSel == InitSel /\ [][NextSel]_vars

Returned(fn) == Truthy(ret) /\ call.fn = fn

\* C5: apply_selection_op with an absent current mask and a
\* present incoming mask treats current as all-zero: the result is incoming
\* for add, all-zero for intersect and all-zero for subtract.
C5_AbsentCurrentIsAllZero ==
    (/\ Returned("apply_selection_op")
     /\ ~Truthy(call.current)
     /\ Truthy(call.incoming)) =>
        /\ call.op = "add" => ret.val = call.incoming
        /\ call.op = "intersect" =>
               ret.val = NewImage(call.incoming.w, call.incoming.h, 0)
        /\ call.op = "subtract" =>
               ret.val = NewImage(call.incoming.w, call.incoming.h, 0)

\* the mask algebra of apply_selection_op on the call that has returned
MaskAlgebraHolds ==
    (/\ Returned("apply_selection_op")
     /\ Truthy(call.current)
     /\ Truthy(call.incoming)
     /\ call.current.w = call.incoming.w
     /\ call.current.h = call.incoming.h) =>
        LET A == call.current
            B == call.incoming
        IN  /\ Truthy(ret.val)
            /\ ret.val # Raised
            /\ ret.val.w = A.w
            /\ ret.val.h = A.h
            /\ \A p \in Coords(A.w, A.h) :
                  /\ call.op = "replace" => ret.val.px[p] = B.px[p]
                  /\ call.op = "add" => ret.val.px[p] = Max(A.px[p], B.px[p])
                  /\ call.op = "intersect" => ret.val.px[p] = Min(A.px[p], B.px[p])
                  /\ call.op = "subtract" =>
                         ret.val.px[p] = IF B.px[p] > 0 THEN 0 ELSE A.px[p]

\* C6: for present masks A (current) and B (incoming) of the same size,
\* apply_selection_op returns B for replace, the pixelwise maximum for add,
\* the pixelwise minimum for intersect, and for subtract 0 where B is
\* positive and A elsewhere; the call leaves both arguments as they were.
C6_MaskAlgebra == [] MaskAlgebraHolds /\ [][call' = call]_vars

C6_Witness ==
    /\ Returned("apply_selection_op")
    /\ Truthy(call.current)
    /\ Truthy(call.incoming)
    /\ call.current.w = MaxW
    /\ call.incoming.w = MaxW
    /\ call.op = "subtract"
    /\ \E p, q \in Coords(MaxW, 1) :
          /\ call.incoming.px[p] > 0 /\ call.current.px[p] > 0 /\ ret.val.px[p] = 0
          /\ call.incoming.px[q] = 0 /\ call.current.px[q] > 0 /\ ret.val.px[q] = 255

\* the second of two invert_selection calls has returned
InvertedTwice == Returned("invert_selection") /\ "twice" \in DOMAIN ret

\* C23: for every mask M with values in {0,255}, invert_selection applied to
\* invert_selection(M) gives M again, and the calls leave M as it was.
C23_InvertIsInvolution ==
    /\ [] ((InvertedTwice /\ Truthy(call.mask)) =>
              /\ ret.twice = call.mask
              /\ \A c \in DOMAIN call.mask.px : ret.val.px[c] = 255 - call.mask.px[c])
    /\ [][call.fn = "invert_selection" => call' = call]_vars

\* a mask MaxW wide with a selected and an unselected pixel, inverted twice
C23_Witness ==
    /\ InvertedTwice
    /\ Truthy(call.mask)
    /\ call.mask.w = MaxW
    /\ \E p, q \in DOMAIN call.mask.px : call.mask.px[p] = 0 /\ call.mask.px[q] = 255
    /\ ret.val # call.mask

(***************************************************************************)
(* SpecComp: the displacement compositors as pure functions.  Init draws   *)
(* one call: a reference raster and a displacement raster of every size up *)
(* to CompW x CompH (absent ones included), and for app.py's compositor    *)
(* the scalar promotion of the installed NumPy.  The actions perform the   *)
(* call and record what it returns.                                        *)
(***************************************************************************)
CompSizes == (1 .. CompW) \X (1 .. CompH)

\* reference rasters: every pixel tells its own position; in the second kind
\* the pixel at the origin is transparent with its colour kept
Gradient(w, h, holed) ==
    [w |-> w, h |-> h,
     px |-> [c \in Coords(w, h) |->
                <<10 + c[1], 20 + c[2], 30,
                  IF holed /\ c = <<0, 0>> THEN 0 ELSE 255>>]]

References == {Gradient(s[1], s[2], holed) : s \in CompSizes, holed \in BOOLEAN}

\* displacement pixels: no offset, one pixel each way, a ten pixel push to
\* the right, a far push at alpha 1, and transparent pixels with neutral and
\* with stale offsets
DispPixels ==
    {NEUTRAL_OPAQUE, <<127, 128, 0, 255>>, <<129, 128, 0, 255>>,
     <<128, 127, 0, 255>>, <<128, 129, 0, 255>>, <<138, 128, 0, 255>>,
     <<0, 255, 0, 1>>, <<9, 7, 0, 0>>, NEUTRAL_TRANSPARENT}

DispFills == {NEUTRAL_OPAQUE, <<127, 127, 0, 255>>, <<9, 7, 0, 0>>}

\* displacement rasters: one fill with at most one pixel set apart
Displacements ==
    {[w |-> s[1], h |-> s[2],
      px |-> [c \in Coords(s[1], s[2]) |-> IF c = at THEN probe ELSE fill]] :
     s \in CompSizes, at \in Coords(CompW, CompH),
     probe \in DispPixels, fill \in DispFills}

CompCalls ==
    [fn : {"image_processing"}, reference : References \cup {None},
     displacement : Displacements \cup {None}]
    \cup [fn : {"app"}, reference : References \cup {None},
          displacement : Displacements \cup {None}, nep50 : BOOLEAN]

InitComp ==
    /\ InitSession
    /\ InitHistory
    /\ call \in CompCalls
    /\ ret = None
    /\ frame = None

CallCompositor ==
    /\ ret = None
    /\ call.fn = "image_processing"
    /\ ret' = [val |-> apply_ss14_displacement(call.reference, call.displacement)]
    /\ UNCHANGED <<sessionVars, historyVars, call, frame>>

CallAppCompositor ==
    /\ ret = None
    /\ call.fn = "app"
    /\ ret' = [val |-> app_apply_ss14_displacement(call.reference, call.displacement,
                                                   call.nep50)]
    /\ UNCHANGED <<sessionVars, historyVars, call, frame>>

NextComp ==
    \/ CallCompositor
    \/ CallAppCompositor

SpecComp == InitComp /\ [][NextComp]_vars

\* a compositor has returned a raster
Composited ==
    /\ Truthy(ret)
    /\ call.fn \in {"image_processing", "app"}
    /\ Truthy(call.reference)
    /\ Truthy(call.displacement)

\* the displacement raster as the compositor reads it
DispUsed == resize_nearest(call.displacement, call.reference.w, call.reference.h)

\* C8: for every output pixel (x, y) whose displacement pixel has non-zero
\* alpha, the compositor's output is the reference pixel, all four channels,
\* at (clamp(x + R - 128, 0, width - 1), clamp(y + G - 128, 0, height - 1)).
C8_SamplesWithClamping ==
    Composited =>
        \A c \in Coords(call.reference.w, call.reference.h) :
            DispUsed.px[c][4] # 0 =>
                ret.val.px[c] =
                    call.reference.px[
                        <<Clip(c[1] + DispUsed.px[c][1] - 128, 0, call.reference.w - 1),
                          Clip(c[2] + DispUsed.px[c][2] - 128, 0, call.reference.h - 1)>>]

\* C9: every output pixel of the compositor whose displacement pixel has
\* alpha 0 is (0,0,0,0), whatever the R and G of that displacement pixel.
C9_TransparentGuard ==
    Composited =>
        \A c \in Coords(call.reference.w, call.reference.h) :
            DispUsed.px[c][4] = 0 => ret.val.px[c] = TRANSPARENT_BLACK

C9_Witness ==
    /\ Composited
    /\ call.fn = "image_processing"
    /\ call.reference = Gradient(CompW, CompH, FALSE)
    /\ call.displacement.w = CompW
    /\ call.displacement.h = CompH
    /\ \E c, d \in Coords(CompW, CompH) :
          /\ call.displacement.px[c] = <<9, 7, 0, 0>>
          /\ ret.val.px[c] = TRANSPARENT_BLACK
          /\ call.displacement.px[d][4] # 0
          /\ ret.val.px[d] # TRANSPARENT_BLACK

\* C10: a displacement raster whose every pixel is (128,128,0,255), applied
\* to a reference raster of the same size, returns a raster pixel-identical
\* to the reference.
C10_ZeroOffsetRoundTrip ==
    (/\ Composited
     /\ call.displacement.w = call.reference.w
     /\ call.displacement.h = call.reference.h
     /\ \A c \in DOMAIN call.displacement.px :
           call.displacement.px[c] = NEUTRAL_OPAQUE) =>
        ret.val = call.reference

C10_Witness ==
    /\ Composited
    /\ call.fn = "image_processing"
    /\ call.reference = Gradient(CompW, CompH, TRUE)
    /\ call.displacement = NewImage(CompW, CompH, NEUTRAL_OPAQUE)
    /\ ret.val = call.reference

(***************************************************************************)
(* SpecPaint: one paint stroke as a pure function.  Init draws one call of *)
(* paint_displacement: a StrokeW x StrokeH raster, the selection (absent,  *)
(* or an active mask of the raster's size or one column or row short, as   *)
(* a new canvas leaves behind), the tool, direction, brush size, strength  *)
(* and a centre inside the raster.  The action performs the stroke.        *)
(***************************************************************************)
\* a fresh canvas, a raster loaded from a file, an erased raster
StrokeFills == {NEUTRAL_OPAQUE, <<250, 5, 7, 9>>, NEUTRAL_TRANSPARENT}

StrokeMaskSizes ==
    {<<StrokeW, StrokeH>>, <<StrokeW - 1, StrokeH>>, <<StrokeW, StrokeH - 1>>}

\* masks: all of one value, with at most one pixel of the other value
StrokeMasks ==
    {[w |-> s[1], h |-> s[2],
      px |-> [c \in Coords(s[1], s[2]) |-> IF c = at THEN 255 - fill ELSE fill]] :
     s \in StrokeMaskSizes, at \in Coords(StrokeW, StrokeH) \cup {<<-1, -1>>},
     fill \in MaskValues}

StrokeTools ==
    [tool : {"paint"}, direction : {"right", "left", "up", "down"}]
    \cup [tool : {"erase"}, direction : {"right"}]

StrokeCalls ==
    {[fn |-> "paint_displacement",
      img |-> NewImage(StrokeW, StrokeH, fill),
      mask |-> m,
      active |-> Truthy(m),
      tool |-> t.tool,
      direction |-> t.direction,
      size |-> size,
      strength |-> strength,
      x |-> c[1],
      y |-> c[2]] :
     fill \in StrokeFills, m \in StrokeMasks \cup {None}, t \in StrokeTools,
     size \in 1 .. 3, strength \in {1, 200}, c \in Coords(StrokeW, StrokeH)}

InitPaint ==
    /\ InitSession
    /\ InitHistory
    /\ call \in StrokeCalls
    /\ ret = None
    /\ frame = None

CallPaintDisplacement ==
    /\ ret = None
    /\ call.fn = "paint_displacement"
    /\ ret' = paint_displacement(call.img, call.mask, call.active, call.tool,
                                 call.direction, call.size, call.strength,
                                 call.x, call.y)
    /\ UNCHANGED <<sessionVars, historyVars, call, frame>>

\* the same arguments handed to paint_displacement_brush once the session's
\* stroke has returned; the tool Paint is the mode "directional"
CallPaintDisplacementBrush ==
    /\ Truthy(ret)
    /\ frame = None
    /\ \E numpy2 \in BOOLEAN :
          frame' = paint_displacement_brush(
                       call.img, IF call.active THEN call.mask ELSE None,
                       IF call.tool = "erase" THEN "erase" ELSE "directional",
                       call.direction, call.size, call.strength, call.x, call.y, numpy2)
    /\ UNCHANGED <<sessionVars, historyVars, call, ret>>

NextPaint ==
    \/ CallPaintDisplacement
    \/ CallPaintDisplacementBrush

SpecPaint == InitPaint /\ [][NextPaint]_vars

Painted == Truthy(ret) /\ call.fn = "paint_displacement"

\* the selection as the stroke reads it
StrokeSel == call.active /\ Truthy(call.mask)

\* the mask lets the stroke touch pixel c
Selected(c) == ~StrokeSel \/ (InImage(call.mask, c[1], c[2]) /\ call.mask.px[c] # 0)

\* the pixels of the raster within the brush radius of the centre
InBrush(c) ==
    LET r == call.size \div 2
        dx == c[1] - call.x
        dy == c[2] - call.y
    IN  dx * dx + dy * dy <= r * r

\* the footprint of the stroke
Footprint == {c \in Coords(call.img.w, call.img.h) : InBrush(c) /\ Selected(c)}

\* the update of pixel c that the tool and direction ask for
Updated(c) ==
    paint_pixel(call.img.px[c], call.tool,
                direction_modifier(call.tool, call.direction, call.strength))

\* C11: a stroke updates exactly the pixels inside the raster, within the
\* brush radius of the centre and (with an active selection) of non-zero
\* mask value, whether or not the centre itself is selected, and leaves every
\* other pixel unchanged.
C11_FootprintWhateverCentre ==
    Painted =>
        \A c \in Coords(call.img.w, call.img.h) :
            ret.img.px[c] = IF c \in Footprint THEN Updated(c) ELSE call.img.px[c]

\* the mask answers for every pixel of the raster within the brush radius
MaskCoversBrush ==
    StrokeSel =>
        \A c \in Coords(call.img.w, call.img.h) :
            InBrush(c) => InImage(call.mask, c[1], c[2])

\* C11 (amended): a stroke changes only pixels inside the raster, within the
\* brush radius of the centre and (with an active selection) of non-zero
\* mask value, and a changed pixel holds its update; when a selection is
\* active and the centre's mask value is 0 the stroke changes nothing; when
\* the centre is selected (or no selection is active) and the mask covers
\* the brush, exactly those pixels are updated.
C11_FootprintWhenCentreSelected ==
    Painted =>
        /\ \A c \in Coords(call.img.w, call.img.h) :
              \/ ret.img.px[c] = call.img.px[c]
              \/ c \in Footprint /\ ret.img.px[c] = Updated(c)
        /\ ~Selected(<<call.x, call.y>>) /\ ~ret.raised => ret.img = call.img
        /\ Selected(<<call.x, call.y>>) /\ MaskCoversBrush =>
              /\ ~ret.raised
              /\ \A c \in Footprint : ret.img.px[c] = Updated(c)

\* C11 witness: the centre is unselected while a neighbour within the radius
\* is selected, and the stroke has left the raster as it was
C11_Witness ==
    /\ Painted
    /\ StrokeSel
    /\ call.mask.w = StrokeW
    /\ call.mask.h = StrokeH
    /\ call.mask.px[<<call.x, call.y>>] = 0
    /\ call.tool = "erase"
    /\ call.img = NewImage(StrokeW, StrokeH, NEUTRAL_OPAQUE)
    /\ Footprint # {}
    /\ ret.img = call.img

\* the stroke went through and pixel c is one it updates
Affected(c) ==
    /\ Painted
    /\ ~ret.raised
    /\ Selected(<<call.x, call.y>>)
    /\ c \in Footprint

\* C12: Paint adds the signed strength to exactly one channel of each
\* affected pixel (right +R, left -R, up -G, down +G), clamped to 0..255
\* without wrapping, sets alpha to 255 and leaves the other offset channel
\* and B unchanged; Erase sets each affected pixel to (128,128,0,0).
C12_DirectionalClampAndErase ==
    \A c \in Coords(StrokeW, StrokeH) :
        Affected(c) =>
            LET old == call.img.px[c]
                new == ret.img.px[c]
                s == call.strength
            IN  /\ (call.tool = "paint" /\ call.direction = "right") =>
                       new = <<Min(255, old[1] + s), old[2], old[3], 255>>
                /\ (call.tool = "paint" /\ call.direction = "left") =>
                       new = <<Max(0, old[1] - s), old[2], old[3], 255>>
                /\ (call.tool = "paint" /\ call.direction = "up") =>
                       new = <<old[1], Max(0, old[2] - s), old[3], 255>>
                /\ (call.tool = "paint" /\ call.direction = "down") =>
                       new = <<old[1], Min(255, old[2] + s), old[3], 255>>
                /\ call.tool = "erase" => new = <<128, 128, 0, 0>>

\* C12 witness: strength 200 to the right on a channel holding 250 gives 255
C12_Witness ==
    /\ Affected(<<call.x, call.y>>)
    /\ call.tool = "paint"
    /\ call.direction = "right"
    /\ call.strength = 200
    /\ call.img.px[<<call.x, call.y>>] = <<250, 5, 7, 9>>
    /\ ret.img.px[<<call.x, call.y>>] = <<255, 5, 7, 255>>

\* C27: for the same raster, centre, brush size, direction, strength, mode and
\* selection mask, paint_displacement_brush returns the raster the session's
\* paint stroke produces.
C27_BrushMatchesStroke ==
    (Painted /\ Truthy(frame)) =>
        /\ frame.raised = ret.raised
        /\ frame.img = ret.img

(***************************************************************************)
(* SpecFlood: the flood fill, one loop iteration per step.  Init draws one *)
(* call: magic_select of selection_tools.py as core.py's magic_select(x,   *)
(* y) calls it, on a session whose displacement raster is the image and    *)
(* whose selection is absent or select-all, or magic_select_flood_fill of  *)
(* image_processing.py (the same loop) on an image that may be absent.     *)
(* Images are FloodW x FloodH over two colours; seeds lie inside the image *)
(* or just outside it.                                                     *)
(***************************************************************************)
\* two colours and a tolerance: colours equal but for alpha at tolerance 0;
\* 32 apart and 33 apart at tolerance 32 (the default of the spin box); 765
\* apart, the largest difference there is, at 765
FloodCases ==
    {[one |-> <<128, 128, 0, 255>>, two |-> <<128, 128, 0, 0>>, tolerance |-> 0],
     [one |-> <<128, 128, 0, 255>>, two |-> <<128, 129, 0, 255>>, tolerance |-> 0],
     [one |-> <<128, 128, 0, 255>>, two |-> <<140, 138, 10, 255>>, tolerance |-> 32],
     [one |-> <<128, 128, 0, 255>>, two |-> <<141, 138, 10, 255>>, tolerance |-> 32],
     [one |-> <<0, 0, 0, 255>>, two |-> <<255, 255, 255, 255>>, tolerance |-> 765]}

\* the cases run through core.py on a session with everything selected, and
\* through magic_select_flood_fill
FloodCasesSelected == {k \in FloodCases : k.two = <<141, 138, 10, 255>>}

FloodCasesDirect == {k \in FloodCases : k.tolerance = 765}

FloodImage(k, ones) ==
    [w |-> FloodW, h |-> FloodH,
     px |-> [c \in Coords(FloodW, FloodH) |-> IF c \in ones THEN k.one ELSE k.two]]

FloodSeeds ==
    Coords(FloodW, FloodH) \cup {<<-1, 0>>, <<FloodW, 0>>, <<0, FloodH>>}

\* how the call is made: by core.py with no selection or with everything
\* selected, or magic_select_flood_fill with an image or without one
FloodVariants(k) ==
    {"session"}
    \cup (IF k \in FloodCasesSelected THEN {"selected"} ELSE {})
    \cup (IF k \in FloodCasesDirect THEN {"direct", "absent"} ELSE {})

FloodCall(k, ones, seed, variant) ==
    [fn |-> IF variant \in {"session", "selected"}
            THEN "magic_select" ELSE "magic_select_flood_fill",
     image |-> IF variant = "absent" THEN None ELSE FloodImage(k, ones),
     x |-> seed[1],
     y |-> seed[2],
     tolerance |-> k.tolerance,
     mask |-> IF variant = "selected" THEN NewImage(FloodW, FloodH, 255) ELSE None,
     active |-> variant = "selected"]

InitFlood ==
    /\ \E k \in FloodCases, ones \in SUBSET Coords(FloodW, FloodH),
          seed \in FloodSeeds :
          \E variant \in FloodVariants(k) :
              /\ variant = "absent" => ones = {}
              /\ call = FloodCall(k, ones, seed, variant)
    /\ ret = None
    /\ frame = None
    /\ displacement_image = IF call.fn = "magic_select" THEN call.image ELSE None
    /\ reference_image = None
    /\ background_image = None
    /\ selection_mask = call.mask
    /\ selection_active = call.active
    /\ current_tool = "magic"
    /\ selection_op = "replace"
    /\ selection_start = None
    /\ temp_selection = None
    /\ lasso_points = << >>
    /\ brush_size = 5
    /\ paint_strength = 1
    /\ magic_tolerance = call.tolerance
    /\ is_drawing = FALSE
    /\ displacement_direction = "right"
    /\ undo_stack = << >>
    /\ InitHistory

\* the call runs up to its loop, or returns None at once
FloodEnter ==
    /\ ret = None
    /\ frame = None
    /\ LET f == IF ~Truthy(call.image) THEN None
                ELSE flood_enter(call.image, call.x, call.y)
       IN  IF Truthy(f)
           THEN /\ frame' = f
                /\ UNCHANGED <<ret, call, sessionVars, historyVars>>
           ELSE \* core.py's apply_selection(None) returns at once
                /\ ret' = [val |-> None]
                /\ UNCHANGED <<frame, call, sessionVars, historyVars>>

FloodStep ==
    /\ ret = None
    /\ Truthy(frame)
    /\ frame.queue # << >>
    /\ frame' = flood_step(call.image, <<call.x, call.y>>, call.tolerance, frame)
    /\ UNCHANGED <<ret, call, sessionVars, historyVars>>

\* magic_select returns its mask to core.py's magic_select, which commits it
FloodReturnToSession ==
    /\ ret = None
    /\ Truthy(frame)
    /\ frame.queue = << >>
    /\ call.fn = "magic_select"
    /\ LET selection == flood_mask(call.image, frame.mask)
           r == apply_selection(selection_mask, selection_active, selection, selection_op)
       IN  /\ ret' = [val |-> selection]
           /\ selection_mask' = r.mask
           /\ selection_active' = r.active
    /\ UNCHANGED <<frame, call, imageVars, settingVars, gestureVars, undo_stack,
                   historyVars>>

FloodReturn ==
    /\ ret = None
    /\ Truthy(frame)
    /\ frame.queue = << >>
    /\ call.fn = "magic_select_flood_fill"
    /\ ret' = [val |-> flood_mask(call.image, frame.mask)]
    /\ UNCHANGED <<frame, call, sessionVars, historyVars>>

NextFlood ==
    \/ FloodEnter
    \/ FloodStep
    \/ FloodReturnToSession
    \/ FloodReturn

SpecFlood == InitFlood /\ [][NextFlood]_vars

\* the call runs to completion on its thread: no step is put off for ever
SpecFloodFair == SpecFlood /\ WF_vars(NextFlood)

\* the seed of the call
FloodSeed == <<call.x, call.y>>

\* pixel c is within the tolerance of the seed colour, alpha ignored
WithinTolerance(c) ==
    Abs(call.image.px[c][1] - call.image.px[FloodSeed][1])
    + Abs(call.image.px[c][2] - call.image.px[FloodSeed][2])
    + Abs(call.image.px[c][3] - call.image.px[FloodSeed][3]) <= call.tolerance

\* c and d share an edge
Adjacent(c, d) == Abs(c[1] - d[1]) + Abs(c[2] - d[2]) = 1

RECURSIVE Grown(_)
\* the pixels joined to a pixel of S by a 4-connected path of pixels within
\* the tolerance
Grown(S) ==
    LET T == S \cup {c \in Coords(call.image.w, call.image.h) :
                        WithinTolerance(c) /\ \E d \in S : Adjacent(c, d)}
    IN  IF T = S THEN S ELSE Grown(T)

\* the pixels the claim allows in the mask
SeedRegion == Grown({c \in {FloodSeed} : WithinTolerance(c)})

\* C13: every pixel the flood fill selects is joined to the seed by a
\* 4-connected path of pixels each within the tolerance of the seed colour
\* (sum of absolute RGB differences, alpha ignored); no other pixel is ever
\* selected, during the loop or in the mask returned.
C13_FloodContainment ==
    /\ Truthy(frame) => frame.mask \subseteq SeedRegion
    /\ (Truthy(ret) /\ Truthy(ret.val)) =>
           {c \in DOMAIN ret.val.px : ret.val.px[c] # 0} \subseteq SeedRegion

\* C13 witness: the mask holds the seed and leaves out a pixel of the seed's
\* own colour, which only a diagonal joins to the seed
C13_Witness ==
    /\ Truthy(ret)
    /\ Truthy(ret.val)
    /\ call.tolerance = 32
    /\ ret.val.px[FloodSeed] = 255
    /\ \E d \in Coords(FloodW, FloodH) :
          /\ ret.val.px[d] = 0
          /\ call.image.px[d] = call.image.px[FloodSeed]

\* no coordinate occurs twice in the sequence s
NoRepeat(s) == \A i, j \in 1 .. Len(s) : i # j => s[i] # s[j]

\* the work queue of the running flood fill never takes a pixel twice
QueuedOnce ==
    Truthy(frame) =>
        /\ NoRepeat(frame.enq)
        /\ NoRepeat(frame.deq)
        /\ Len(frame.deq) <= call.image.w * call.image.h

\* C14: the flood fill terminates for every image, seed and tolerance
\* (tolerance 0 and tolerance 765 included), and no pixel is appended to or
\* popped from the work queue more than once, so at most N pixels are
\* processed on an N-pixel image.
C14_FloodTerminates == [] QueuedOnce /\ <> Truthy(ret)

\* C14 witness: a fill at tolerance 765 over two colours has returned after
\* popping every pixel of the image once
C14_Witness ==
    /\ Truthy(ret)
    /\ Truthy(frame)
    /\ call.tolerance = 765
    /\ Len(frame.deq) = FloodW * FloodH
    /\ \E c \in Coords(FloodW, FloodH) : call.image.px[c] # call.image.px[FloodSeed]

FloodSelected == {c \in DOMAIN ret.val.px : ret.val.px[c] # 0}

\* C30: for a seed inside the image and a tolerance of 0 or more, the mask
\* returned selects exactly the pixels joined to the seed by a 4-connected
\* path of pixels each within the tolerance of the seed colour; with a
\* tolerance of 765 or more that is the whole image, and with tolerance 0 the
\* connected region of the seed's exact RGB colour.
C30_FloodIsComplete ==
    (Truthy(ret) /\ Truthy(ret.val)) =>
        /\ FloodSelected = SeedRegion
        /\ \A c \in FloodSelected : \A d \in Coords(call.image.w, call.image.h) :
              (Adjacent(c, d) /\ WithinTolerance(d)) => d \in FloodSelected
        /\ call.tolerance >= 765 => FloodSelected = Coords(call.image.w, call.image.h)
        /\ call.tolerance = 0 =>
              \A c \in FloodSelected :
                  /\ call.image.px[c][1] = call.image.px[FloodSeed][1]
                  /\ call.image.px[c][2] = call.image.px[FloodSeed][2]
                  /\ call.image.px[c][3] = call.image.px[FloodSeed][3]

\* C30 witness: at tolerance 0 over two RGB colours the mask holds a pixel
\* to the left of the seed column that no edge joins to the seed, and leaves
\* a pixel out
C30_Witness ==
    /\ Truthy(ret)
    /\ Truthy(ret.val)
    /\ call.tolerance = 0
    /\ \E c \in FloodSelected :
          c # FloodSeed /\ ~Adjacent(c, FloodSeed) /\ c[1] < FloodSeed[1]
    /\ \E d \in Coords(FloodW, FloodH) : d \notin FloodSelected

(***************************************************************************)
(* SpecGesture: rectangle and lasso gestures on a GestureW x 1 canvas, in  *)
(* the order Tk delivers the events (<Button-1>, then <B1-Motion> events,  *)
(* then <ButtonRelease-1>), the pointer inside the raster or left of it.   *)
(* The tool and the selection operation change between gestures.  The      *)
(* history variable gesture records what the events of the gesture in      *)
(* progress were, and at its end what the release committed.               *)
(***************************************************************************)
InitGesture ==
    /\ displacement_image = NewImage(GestureW, 1, NEUTRAL_OPAQUE)
    /\ reference_image = None
    /\ background_image = None
    /\ selection_mask = None
    /\ selection_active = FALSE
    /\ current_tool = "rect"
    /\ selection_op = "replace"
    /\ selection_start = None
    /\ temp_selection = None
    /\ lasso_points = << >>
    /\ brush_size = 5
    /\ paint_strength = 1
    /\ magic_tolerance = 32
    /\ is_drawing = FALSE
    /\ displacement_direction = "right"
    /\ undo_stack = << >>
    /\ InitHistory
    /\ InitFn

GesturePointer == ((-1) .. (GestureW - 1)) \X {0}

ButtonUp == gesture.phase # "down"

\* <Button-1>: begin
Press ==
    \E ev \in GesturePointer :
        LET pos == canvas_to_image_coords(displacement_image, ev)
        IN  /\ ButtonUp
            /\ canvas_click(ev)
            /\ gesture' = [phase |-> "down",
                           anchor |-> IF current_tool = "rect" THEN pos ELSE None,
                           last |-> None,
                           points |-> IF current_tool = "lasso" /\ Truthy(pos)
                                      THEN <<pos>> ELSE << >>]
            /\ UNCHANGED <<pushed, undo_expect, noted, fnVars>>

\* <B1-Motion>: continue
Motion ==
    \E ev \in GesturePointer :
        LET pos == canvas_to_image_coords(displacement_image, ev)
        IN  /\ gesture.phase = "down"
            /\ current_tool = "lasso" => Len(lasso_points) < MaxLasso
            /\ canvas_drag(ev)
            /\ gesture' = IF ~Truthy(pos) THEN gesture
                          ELSE [gesture EXCEPT
                                   !.last = pos,
                                   !.points = IF current_tool = "lasso"
                                              THEN Append(@, pos) ELSE @]
            /\ UNCHANGED <<pushed, undo_expect, noted, fnVars>>

\* <ButtonRelease-1>: end
Release ==
    /\ gesture.phase = "down"
    /\ canvas_release
    /\ gesture' = [phase |-> "ended",
                   tool |-> current_tool,
                   anchor |-> gesture.anchor,
                   last |-> gesture.last,
                   points |-> gesture.points,
                   rect |-> IF current_tool = "rect" /\ Truthy(temp_selection)
                            THEN temp_selection ELSE None,
                   polygon |-> IF current_tool = "lasso" /\ Len(lasso_points) > 2
                               THEN lasso_points ELSE << >>,
                   mask |-> selection_mask,
                   active |-> selection_active]
    /\ UNCHANGED <<pushed, undo_expect, noted, fnVars>>

GestureSetTool ==
    \E t \in {"rect", "lasso"} :
        /\ ButtonUp
        /\ set_current_tool(t)
        /\ gesture' = [phase |-> "idle"]
        /\ UNCHANGED <<pushed, undo_expect, noted, fnVars>>

GestureSetOp ==
    \E o \in {"replace", "add"} :
        /\ ButtonUp
        /\ set_selection_op(o)
        /\ gesture' = [phase |-> "idle"]
        /\ UNCHANGED <<pushed, undo_expect, noted, fnVars>>

GestureDeselect ==
    /\ ButtonUp
    /\ deselect_all
    /\ gesture' = [phase |-> "idle"]
    /\ UNCHANGED <<pushed, undo_expect, noted, fnVars>>

NextGesture ==
    \/ Press
    \/ Motion
    \/ Release
    \/ GestureSetTool
    \/ GestureSetOp
    \/ GestureDeselect

SpecGesture == InitGesture /\ [][NextGesture]_vars

\* C16: a rectangle committed at end is the rectangle between the anchor
\* recorded by the begin of that same gesture and the position of its last
\* continue, never one built from the anchor or provisional mask of an
\* earlier gesture; and after every end no provisional mask remains.
C16_RectFromOwnAnchor ==
    (gesture.phase = "ended" /\ gesture.tool = "rect") =>
        /\ Truthy(gesture.rect) =>
               /\ Truthy(gesture.anchor)
               /\ Truthy(gesture.last)
               /\ gesture.rect = create_rect_selection(gesture.anchor, gesture.last,
                                                       displacement_image.w,
                                                       displacement_image.h)
        /\ ~Truthy(temp_selection)

\* C17: the polygon committed at end is built only from the positions of the
\* begin and continue events of that same gesture; a gesture that ends with
\* fewer than 3 points is discarded: the selection is left as it was and
\* none of its points stays for a later gesture.
C17_LassoConsumedOnce ==
    (gesture.phase = "ended" /\ gesture.tool = "lasso") =>
        /\ gesture.polygon # << >> => gesture.polygon = gesture.points
        /\ Len(gesture.points) < 3 =>
               /\ selection_mask = gesture.mask
               /\ selection_active = gesture.active
               /\ lasso_points = << >>

\* ---------------------------------------------------------------------------
\* SpecCommand: the whole-raster commands (new, load, clear, flip, undo).
\* gesture remembers the raster and the log a command started from.
\* ---------------------------------------------------------------------------

\* widest file the user can pick
CmdW == 2
\* snapshots the log may hold before a further command is explored
CmdStack == 2

\* decoded files: one per width, the first pixel transparent with stale colour
\* bytes, the others with four distinct channel values
CmdFiles ==
    {[w |-> w, h |-> 1,
      px |-> [c \in Coords(w, 1) |->
                 IF c[1] = 0 THEN <<7, 9, 0, 0>> ELSE <<10, 20, 30, 40>>]] :
        w \in 1 .. CmdW}

CmdLogHasRoom == Len(undo_stack) < CmdStack

InitCommand ==
    /\ InitSession
    /\ InitHistory
    /\ InitFn

\* File > New with neither reference nor background: the dialog gives 1x1
CmdNew ==
    /\ \E dialog \in {None, [w |-> 1, h |-> 1]} : create_new(dialog)
    /\ gesture' = [phase |-> "idle"]
    /\ UNCHANGED <<pushed, undo_expect, noted, fnVars>>

CmdLoad ==
    /\ \E file \in CmdFiles \cup {None} :
          /\ load_displacement(file)
          /\ gesture' = IF Truthy(file) /\ Truthy(displacement_image)
                        THEN [phase |-> "loaded", raster |-> displacement_image,
                              log |-> undo_stack]
                        ELSE [phase |-> "idle"]
    /\ UNCHANGED <<pushed, undo_expect, noted, fnVars>>

CmdClear ==
    /\ CmdLogHasRoom
    /\ clear
    /\ gesture' = IF Truthy(displacement_image)
                  THEN [phase |-> "cleared", raster |-> displacement_image,
                        log |-> undo_stack]
                  ELSE [phase |-> "idle"]
    /\ UNCHANGED <<pushed, undo_expect, noted, fnVars>>

CmdFlip ==
    /\ CmdLogHasRoom
    /\ flip_displacement
    /\ gesture' = IF ~Truthy(displacement_image) THEN [phase |-> "idle"]
                  ELSE IF gesture.phase = "flipped"
                  THEN [phase |-> "flipped twice", raster |-> gesture.raster,
                        log |-> gesture.log]
                  ELSE [phase |-> "flipped", raster |-> displacement_image,
                        log |-> undo_stack]
    /\ UNCHANGED <<pushed, undo_expect, noted, fnVars>>

CmdUndo ==
    /\ undo
    /\ gesture' = IF gesture.phase = "loaded"
                  THEN [gesture EXCEPT !.phase = "load undone"]
                  ELSE IF gesture.phase = "cleared"
                  THEN [gesture EXCEPT !.phase = "clear undone"]
                  ELSE [phase |-> "idle"]
    /\ UNCHANGED <<pushed, undo_expect, noted, fnVars>>

NextCommand ==
    \/ CmdNew
    \/ CmdLoad
    \/ CmdClear
    \/ CmdFlip
    \/ CmdUndo

SpecCommand == InitCommand /\ [][NextCommand]_vars

\* C18: loading a displacement raster over an existing one pushes a snapshot of
\* the existing raster first, so that an undo right after the load restores
\* the raster that was loaded over.
C18_LoadPushesSnapshot ==
    /\ gesture.phase = "loaded" =>
          undo_stack = Append(gesture.log, gesture.raster)
    /\ gesture.phase = "load undone" =>
          displacement_image = gesture.raster

\* C19: clear() pushes a snapshot of the raster and then sets every pixel to
\* (128,128,0,255) keeping the width and height; an undo right after restores
\* the raster and the log as they were before the clear.
C19_ClearSnapshotsThenNeutral ==
    /\ gesture.phase = "cleared" =>
          /\ undo_stack = Append(gesture.log, gesture.raster)
          /\ displacement_image.w = gesture.raster.w
          /\ displacement_image.h = gesture.raster.h
          /\ DOMAIN displacement_image.px = Coords(gesture.raster.w, gesture.raster.h)
          /\ \A c \in DOMAIN displacement_image.px :
                displacement_image.px[c] = <<128, 128, 0, 255>>
    /\ gesture.phase = "clear undone" =>
          /\ displacement_image = gesture.raster
          /\ undo_stack = gesture.log

\* a clear of a raster CmdW wide that held a pixel other than neutral opaque,
\* undone right after
C19_Witness ==
    /\ gesture.phase = "clear undone"
    /\ gesture.raster.w = CmdW
    /\ \E c \in DOMAIN gesture.raster.px :
          gesture.raster.px[c] # <<128, 128, 0, 255>>
    /\ gesture.log # << >>

\* C20: flip_displacement() pushes a snapshot of the raster and then swaps the
\* R and G channels of every pixel, leaving B, A, the width and the height
\* as they were; a second flip right after gives back the original pixels.
C20_FlipSwapsRedGreen ==
    /\ gesture.phase = "flipped" =>
          /\ undo_stack = Append(gesture.log, gesture.raster)
          /\ displacement_image.w = gesture.raster.w
          /\ displacement_image.h = gesture.raster.h
          /\ DOMAIN displacement_image.px = DOMAIN gesture.raster.px
          /\ \A c \in DOMAIN gesture.raster.px :
                /\ displacement_image.px[c][1] = gesture.raster.px[c][2]
                /\ displacement_image.px[c][2] = gesture.raster.px[c][1]
                /\ displacement_image.px[c][3] = gesture.raster.px[c][3]
                /\ displacement_image.px[c][4] = gesture.raster.px[c][4]
    /\ gesture.phase = "flipped twice" =>
          /\ displacement_image = gesture.raster
          /\ undo_stack = Append(Append(gesture.log, gesture.raster),
                                 flip_image(gesture.raster))

\* two flips in a row of a raster holding a pixel whose R and G differ
C20_Witness ==
    /\ gesture.phase = "flipped twice"
    /\ \E c \in DOMAIN gesture.raster.px :
          gesture.raster.px[c][1] # gesture.raster.px[c][2]

\* C24: in every reachable state every pixel of the displacement raster has
\* channel B equal to 0.
C24_BlueIsZero ==
    Truthy(displacement_image) =>
        \A c \in DOMAIN displacement_image.px : displacement_image.px[c][3] = 0

\* ---------------------------------------------------------------------------
\* SpecStroke and SpecFrame: the commands of the session on one canvas: new
\* canvas, load, the pointer gestures of the tools, undo, clear, flip, select
\* all, deselect, invert and tool changes.  A tool change may come between any two
\* pointer events (the radio buttons answer to the keyboard while a mouse
\* button is held).  The brush is 1 wide, the strength 127 and the selection
\* operation "replace", as in Init.  noted names the step just taken;
\* gesture tells whether a paint gesture is open, whether the step's stroke
\* raised and whether the step committed a selection.
\* ---------------------------------------------------------------------------
SesPointer == ((-1) .. (GestureW - 1)) \X {0}

\* the file the user can load: GestureW wide, the first pixel transparent with
\* stale colour bytes
SesFile ==
    [w |-> GestureW, h |-> 1,
     px |-> [c \in Coords(GestureW, 1) |->
                IF c[1] = 0 THEN <<7, 9, 0, 0>> ELSE <<255, 128, 0, 255>>]]

PaintTools == {"paint", "erase"}

\* the stroke canvas_click or canvas_drag makes at ev raises
StrokeRaises(ev) ==
    paint_displacement(displacement_image, selection_mask, selection_active,
                       current_tool, displacement_direction, brush_size,
                       paint_strength, ev[1], ev[2]).raised

Ghost(phase, raised, committed) ==
    [phase |-> phase, raised |-> raised, committed |-> committed]

SesNew ==
    /\ create_new([w |-> 1, h |-> 1])
    /\ noted' = "new"
    /\ gesture' = Ghost(gesture.phase, FALSE, FALSE)
    /\ UNCHANGED <<pushed, undo_expect, fnVars>>

SesLoad ==
    /\ load_displacement(SesFile)
    /\ noted' = "load"
    /\ gesture' = Ghost(gesture.phase, FALSE, FALSE)
    /\ UNCHANGED <<pushed, undo_expect, fnVars>>

SesBegin ==
    \E ev \in SesPointer :
        LET inside == Truthy(displacement_image)
                          /\ InImage(displacement_image, ev[1], ev[2])
            paints == inside /\ current_tool \in PaintTools
        IN  /\ paints => Len(undo_stack) < MaxStack
            /\ canvas_click(ev)
            /\ noted' = IF ~Truthy(displacement_image) THEN "none"
                        ELSE IF ~inside THEN "begin outside"
                        ELSE IF paints THEN "begin paint"
                        ELSE "begin select"
            /\ gesture' = Ghost(IF paints THEN "painting" ELSE gesture.phase,
                                paints /\ StrokeRaises(ev),
                                inside /\ current_tool = "magic")
            /\ UNCHANGED <<pushed, undo_expect, fnVars>>

SesContinue ==
    \E ev \in SesPointer :
        LET inside == Truthy(displacement_image)
                          /\ InImage(displacement_image, ev[1], ev[2])
            paints == inside /\ current_tool \in PaintTools /\ is_drawing
        IN  /\ current_tool = "lasso" => Len(lasso_points) < MaxLasso
            /\ canvas_drag(ev)
            /\ noted' = IF ~Truthy(displacement_image) THEN "none"
                        ELSE IF ~inside THEN "continue outside"
                        ELSE IF paints THEN "continue paint"
                        ELSE IF current_tool \in PaintTools THEN "continue idle"
                        ELSE "continue select"
            /\ gesture' = Ghost(gesture.phase, paints /\ StrokeRaises(ev), FALSE)
            /\ UNCHANGED <<pushed, undo_expect, fnVars>>

SesEnd ==
    /\ canvas_release
    /\ noted' = IF current_tool \in PaintTools THEN "end paint" ELSE "end select"
    /\ gesture' = Ghost("idle", FALSE,
                        \/ current_tool = "rect" /\ Truthy(temp_selection)
                        \/ current_tool = "lasso" /\ Len(lasso_points) > 2)
    /\ UNCHANGED <<pushed, undo_expect, fnVars>>

SesUndo ==
    /\ undo
    /\ noted' = IF undo_stack = << >> THEN "undo empty" ELSE "undo"
    /\ gesture' = Ghost(gesture.phase, FALSE, FALSE)
    /\ UNCHANGED <<pushed, undo_expect, fnVars>>

SesClear ==
    /\ LogIsShort
    /\ clear
    /\ noted' = "clear"
    /\ gesture' = Ghost(gesture.phase, FALSE, FALSE)
    /\ UNCHANGED <<pushed, undo_expect, fnVars>>

SesFlip ==
    /\ LogIsShort
    /\ flip_displacement
    /\ noted' = "flip"
    /\ gesture' = Ghost(gesture.phase, FALSE, FALSE)
    /\ UNCHANGED <<pushed, undo_expect, fnVars>>

SesSelectAll ==
    /\ select_all
    /\ noted' = "select all"
    /\ gesture' = Ghost(gesture.phase, FALSE, FALSE)
    /\ UNCHANGED <<pushed, undo_expect, fnVars>>

SesDeselect ==
    /\ deselect_all
    /\ noted' = "deselect"
    /\ gesture' = Ghost(gesture.phase, FALSE, FALSE)
    /\ UNCHANGED <<pushed, undo_expect, fnVars>>

SesInvert ==
    /\ invert_selection
    /\ noted' = "invert"
    /\ gesture' = Ghost(gesture.phase, FALSE, FALSE)
    /\ UNCHANGED <<pushed, undo_expect, fnVars>>

SesSetTool(tools) ==
    \E t \in tools :
        /\ set_current_tool(t)
        /\ noted' = "set tool"
        /\ gesture' = Ghost(gesture.phase, FALSE, FALSE)
        /\ UNCHANGED <<pushed, undo_expect, fnVars>>

\* the gestures of the paint and erase tools with undo and select all, on
\* canvases 1 and GestureW wide
NextStroke ==
    \/ SesNew
    \/ SesLoad
    \/ SesBegin
    \/ SesContinue
    \/ SesEnd
    \/ SesUndo
    \/ SesSelectAll
    \/ SesSetTool({"paint", "erase"})

SpecStroke == Init /\ [][NextStroke]_vars

\* every command and all five tools on the 1x1 canvas
NextFrame ==
    \/ SesNew
    \/ SesBegin
    \/ SesContinue
    \/ SesEnd
    \/ SesUndo
    \/ SesClear
    \/ SesFlip
    \/ SesSelectAll
    \/ SesDeselect
    \/ SesInvert
    \/ SesSetTool({"paint", "erase", "rect", "lasso", "magic"})

SpecFrame == Init /\ [][NextFrame]_vars

\* the session state a silent no-op has to leave alone
SessionState ==
    <<displacement_image, selection_mask, selection_active, undo_stack,
      selection_start, temp_selection, lasso_points, is_drawing>>

\* C21: undo() with an empty undo log, and a begin or continue event whose
\* position lies outside the displacement raster, each leave the raster, the
\* selection mask and active flag, the undo log, the anchor, the provisional
\* mask, the lasso points and the drawing flag exactly as they were.
C21_SilentNoOps ==
    [][noted' \in {"undo empty", "begin outside", "continue outside"} =>
           SessionState' = SessionState]_vars

\* a continue event outside the raster in the middle of a paint gesture, on a
\* session that holds an anchor, lasso points, a selection and a snapshot
C21_Witness ==
    /\ noted = "continue outside"
    /\ is_drawing
    /\ current_tool \in PaintTools
    /\ Truthy(selection_start)
    /\ lasso_points # << >>
    /\ selection_active
    /\ undo_stack # << >>

\* C26: under any interleaving of begin, continue, end and tool-change
\* events, a continue event paints the displacement raster only if a Paint or
\* Erase begin that pushed an undo snapshot has occurred and no end has
\* occurred since.
C26_StrokeHasSnapshot ==
    [][(noted' = "continue paint" /\ displacement_image' # displacement_image) =>
           gesture.phase = "painting"]_vars

\* C22: a paint stroke never fails: for every centre, brush radius and
\* selection state reachable in the session the stroke runs to completion.
C22_StrokeNeverFails ==
    noted \in {"begin paint", "continue paint"} => ~gesture.raised

\* what the selection commands do to the flag and the mask in one step
SelectionStepsKeepPair ==
    /\ noted' = "select all" =>
           IF Truthy(displacement_image)
           THEN selection_active' /\ Truthy(selection_mask')
           ELSE UNCHANGED <<selection_mask, selection_active>>
    /\ (noted' \in {"begin select", "end select"} /\ gesture'.committed) =>
           (selection_active' /\ Truthy(selection_mask'))
    /\ noted' = "deselect" => (~selection_active' /\ ~Truthy(selection_mask'))
    /\ noted' = "invert" =>
           /\ selection_active' = selection_active
           /\ Truthy(selection_mask') = Truthy(selection_mask)

\* C28: in every reachable state the selection is active exactly when a
\* selection mask is present.  select_all on a session with a raster and every
\* committed selection set both (select_all without a raster returns at once
\* and changes neither), deselect_all clears both, and invert_selection
\* changes neither the active flag nor whether a mask is present.
C28_ActiveIffMask ==
    /\ [] (selection_active <=> Truthy(selection_mask))
    /\ [][SelectionStepsKeepPair]_vars

\* an inverted select-all: the selection is active and its mask selects
\* nothing
C28_Witness ==
    /\ noted = "invert"
    /\ selection_active
    /\ Truthy(selection_mask)
    /\ \A c \in DOMAIN selection_mask.px : selection_mask.px[c] = 0

\* C29: select_all, deselect_all, invert_selection and every selection
\* gesture (rectangle, lasso, magic wand) leave the displacement raster and
\* the undo log unchanged, and undo, clear, flip and the paint strokes leave
\* the selection mask and the active flag unchanged.
C29_SelectionAndEditingApart ==
    [][(noted' \in {"select all", "deselect", "invert", "begin select",
                    "continue select", "end select"} =>
            UNCHANGED <<displacement_image, undo_stack>>)
       /\
       (noted' \in {"undo", "undo empty", "clear", "flip", "begin paint",
                    "continue paint", "continue idle", "end paint"} =>
            UNCHANGED <<selection_mask, selection_active>>)]_vars

\* a lasso or rectangle gesture has just committed a selection on a raster
\* that was edited and has a snapshot in the log
C29_Witness ==
    /\ noted = "end select"
    /\ gesture.committed
    /\ selection_active
    /\ undo_stack # << >>
    /\ displacement_image # NewImage(1, 1, NEUTRAL_OPAQUE)

\* ---------------------------------------------------------------------------
\* SpecAlias: the displacement raster and the undo log as Python objects.
\* frame is the object graph: heap maps an object to its pixels, cur is the
\* object displacement_image refers to (0 for None) and log the objects in
\* undo_stack.  putpixel writes into the object cur refers to;
\* Image.copy(), Image.new() and Image.fromarray() make new objects.  The
\* handlers run on the session variables as everywhere else; pushed holds the
\* pixels each entry of the log had when it was pushed.
\* ---------------------------------------------------------------------------

\* snapshots the log may hold before a further push is explored
AliasStack == 2

ObjIds == 1 .. (AliasStack + 2)

Objects(f) == IF Truthy(f) THEN f ELSE [heap |-> << >>, cur |-> 0, log |-> << >>]

Referenced(f) == ({f.cur} \cup {f.log[i] : i \in 1 .. Len(f.log)}) \ {0}

\* objects nothing refers to are freed
obj_collect(f) == [f EXCEPT !.heap = [i \in Referenced(f) |-> f.heap[i]]]

obj_fresh(f) ==
    CHOOSE n \in ObjIds :
        /\ n \notin DOMAIN f.heap
        /\ \A m \in ObjIds : m \notin DOMAIN f.heap => n <= m

obj_alloc(f, n, img) ==
    [i \in DOMAIN f.heap \cup {n} |-> IF i = n THEN img ELSE f.heap[i]]

\* self.displacement_image = <a new image object>
obj_install(f, img) ==
    LET n == obj_fresh(f)
    IN  obj_collect([heap |-> obj_alloc(f, n, img), cur |-> n, log |-> f.log])

\* mutant of save_state: the log gets the current object, not a copy of it
obj_save_state_shares(f) ==
    IF f.cur = 0 THEN f ELSE [f EXCEPT !.log = Append(f.log, f.cur)]

\* save_state(): self.undo_stack.append(self.displacement_image.copy())
obj_save_state(f) ==
    IF f.cur = 0 THEN f
    ELSE LET n == obj_fresh(f)
             g == [heap |-> obj_alloc(f, n, f.heap[f.cur]), cur |-> f.cur,
                   log |-> Append(f.log, n)]
         IN  IF Len(g.log) > max_undo_steps
             THEN obj_collect([g EXCEPT !.log = Tail(g.log)])
             ELSE g

\* putpixel on the current object: img is the raster after the stroke
obj_putpixels(f, img) == [f EXCEPT !.heap[f.cur] = img]

\* undo(): self.displacement_image = self.undo_stack.pop()
obj_undo(f) ==
    IF f.log = << >> THEN f
    ELSE obj_collect([f EXCEPT !.cur = f.log[Len(f.log)],
                               !.log = SubSeq(f.log, 1, Len(f.log) - 1)])

\* the stroke of the current tool at ev, made on the current object
obj_stroke(f, ev) ==
    obj_putpixels(f, paint_displacement(f.heap[f.cur], selection_mask, selection_active,
                                        current_tool, displacement_direction,
                                        brush_size, paint_strength, ev[1], ev[2]).img)

AliasLogHasRoom == Len(undo_stack) < AliasStack

AliasNew ==
    /\ create_new([w |-> 1, h |-> 1])
    /\ frame' = obj_install(Objects(frame), NewImage(1, 1, NEUTRAL_OPAQUE))
    /\ noted' = "none"
    /\ UNCHANGED <<pushed, undo_expect, gesture, call, ret>>

AliasClick ==
    \E ev \in Pointer :
        LET f == Objects(frame)
            paints == /\ f.cur # 0
                      /\ InImage(f.heap[f.cur], ev[1], ev[2])
                      /\ current_tool \in PaintTools
        IN  /\ paints => AliasLogHasRoom
            /\ canvas_click(ev)
            /\ frame' = IF paints THEN obj_stroke(obj_save_state(f), ev) ELSE f
            /\ pushed' = IF paints THEN Append(pushed, f.heap[f.cur]) ELSE pushed
            /\ noted' = IF paints /\ noted \in {"undone", "painted restored"}
                        THEN "painted restored" ELSE "none"
            /\ UNCHANGED <<undo_expect, gesture, call, ret>>

AliasDrag ==
    \E ev \in Pointer :
        LET f == Objects(frame)
            paints == /\ f.cur # 0
                      /\ InImage(f.heap[f.cur], ev[1], ev[2])
                      /\ current_tool \in PaintTools
                      /\ is_drawing
        IN  /\ canvas_drag(ev)
            /\ frame' = IF paints THEN obj_stroke(f, ev) ELSE f
            /\ noted' = IF paints /\ noted \in {"undone", "painted restored"}
                        THEN "painted restored" ELSE "none"
            /\ UNCHANGED <<pushed, undo_expect, gesture, call, ret>>

AliasRelease ==
    /\ canvas_release
    /\ frame' = Objects(frame)
    /\ UNCHANGED <<pushed, undo_expect, gesture, noted, call, ret>>

AliasFlip ==
    LET f == Objects(frame)
    IN  /\ f.cur # 0
        /\ AliasLogHasRoom
        /\ flip_displacement
        /\ frame' = obj_install(obj_save_state(f), flip_image(f.heap[f.cur]))
        /\ pushed' = Append(pushed, f.heap[f.cur])
        /\ noted' = "none"
        /\ UNCHANGED <<undo_expect, gesture, call, ret>>

AliasClear ==
    LET f == Objects(frame)
    IN  /\ f.cur # 0
        /\ AliasLogHasRoom
        /\ clear
        /\ frame' = obj_install(obj_save_state(f),
                                NewImage(f.heap[f.cur].w, f.heap[f.cur].h, NEUTRAL_OPAQUE))
        /\ pushed' = Append(pushed, f.heap[f.cur])
        /\ noted' = "none"
        /\ UNCHANGED <<undo_expect, gesture, call, ret>>

AliasUndo ==
    LET f == Objects(frame)
    IN  /\ undo
        /\ frame' = obj_undo(f)
        /\ pushed' = IF pushed = << >> THEN pushed
                     ELSE SubSeq(pushed, 1, Len(pushed) - 1)
        /\ noted' = IF pushed = << >> THEN "none" ELSE "undone"
        /\ UNCHANGED <<undo_expect, gesture, call, ret>>

AliasSetTool ==
    \E t \in PaintTools :
        /\ set_current_tool(t)
        /\ frame' = Objects(frame)
        /\ UNCHANGED <<pushed, undo_expect, gesture, noted, call, ret>>

NextAlias ==
    \/ AliasNew
    \/ AliasClick
    \/ AliasDrag
    \/ AliasRelease
    \/ AliasFlip
    \/ AliasClear
    \/ AliasUndo
    \/ AliasSetTool

SpecAlias == Init /\ [][NextAlias]_vars

\* C25: once a snapshot is in the undo log, no later operation (strokes that
\* write into the current raster, flip, clear, further pushes, painting on a
\* raster that undo has restored) changes the pixels of an entry still in the
\* log: every entry holds the pixels it was pushed with, is an object of its
\* own, and the log read through the objects is the log of the session.
C25_SnapshotsAreCopies ==
    Truthy(frame) =>
        /\ Len(frame.log) = Len(pushed)
        /\ \A i \in 1 .. Len(frame.log) :
              /\ frame.heap[frame.log[i]] = pushed[i]
              /\ frame.log[i] # frame.cur
              /\ \A j \in 1 .. Len(frame.log) : i # j => frame.log[i] # frame.log[j]
        /\ undo_stack = [i \in 1 .. Len(frame.log) |-> frame.heap[frame.log[i]]]
        /\ frame.cur # 0 => displacement_image = frame.heap[frame.cur]

\* a raster restored by undo was painted on while the log was full of
\* snapshots that differ from it
C25_Witness ==
    /\ Truthy(frame)
    /\ noted = "painted restored"
    /\ Len(frame.log) = AliasStack
    /\ \A i \in 1 .. Len(frame.log) : frame.heap[frame.log[i]] # frame.heap[frame.cur]

====
